---- MODULE Spec2Model ----
(***************************************************************************)
(* CodeScope: the incremental workspace index (src/utils/indexer.ts), the  *)
(* snapshot it hands to the ranking engine (src/core/searchEngine.ts) and  *)
(* the file system and file watcher around them.                           *)
(* The query parser (QueryParser), the ranking engine and the declaration  *)
(* parser (TypeScriptParser) are also specified on their own, as functions *)
(* applied once to inputs drawn from bounded sets (QuerySpec, RankSpec,    *)
(* ParserSpec), and so is the discovery walk findCodeFiles over workspaces *)
(* with more entries (DiscoverySpec).  PassSpec is indexWorkspace over a   *)
(* disk that is quiet while a pass runs, LifecycleSpec the watcher with    *)
(* dispose() called at any moment.                                         *)
(*                                                                         *)
(* Strings are sequences of one-character strings, so that includes,       *)
(* basename, extname and the glob-to-regex conversion are computed the way *)
(* the code computes them.                                                 *)
(*                                                                         *)
(* The synchronous stretch of code between two awaits is one action.  At   *)
(* an await of indexFile the call is suspended and the host decides what   *)
(* runs next: a watcher listener, a call of its own, or the continuation.  *)
(* Other processes write to the disk at any time, also between two reads   *)
(* of one synchronous stretch.                                             *)
(***************************************************************************)
EXTENDS Integers, Sequences, FiniteSets, TLC

(***************************************************************************)
(* Bounds of the model.                                                    *)
(***************************************************************************)
MaxTime == 2
MaxLen == 3
MaxFsOps == 1
MaxTasks == 1
MaxRuns == 2
MaxHostCalls == 1
MaxMidWrites == 1
MaxSnapshots == 1
MaxElements == 3

(***************************************************************************)
(* String helpers (JavaScript String methods and node's path module).      *)
(***************************************************************************)
Includes(s, t) ==
  \E i \in 0..(Len(s) - Len(t)) : SubSeq(s, i + 1, i + Len(t)) = t

StartsWith(s, t) == Len(t) <= Len(s) /\ SubSeq(s, 1, Len(t)) = t

EndsWith(s, t) ==
  Len(t) <= Len(s) /\ SubSeq(s, Len(s) - Len(t) + 1, Len(s)) = t

\* the last index of character c in s, 0 when there is none
LastIndexOf(s, c) ==
  LET hits == {i \in 1..Len(s) : s[i] = c}
  IN IF hits = {} THEN 0 ELSE CHOOSE i \in hits : \A j \in hits : j <= i

pathJoin(dir, item) == dir \o <<"/">> \o item

basename(p) == SubSeq(p, LastIndexOf(p, "/") + 1, Len(p))

\* path.extname: from the last "." of the base name, "" when there is none or
\* when the only "." is the first character
extname(p) ==
  LET b == basename(p)
      k == LastIndexOf(b, ".")
  IN IF k <= 1 THEN <<>> ELSE SubSeq(b, k, Len(b))

\* String.prototype.toLowerCase on the alphabet the model uses
LowerChar(c) ==
  CASE c = "A" -> "a" [] c = "B" -> "b" [] c = "C" -> "c" [] c = "D" -> "d"
    [] c = "E" -> "e" [] c = "F" -> "f" [] c = "G" -> "g" [] c = "H" -> "h"
    [] c = "I" -> "i" [] c = "J" -> "j" [] c = "K" -> "k" [] c = "L" -> "l"
    [] c = "M" -> "m" [] c = "N" -> "n" [] c = "O" -> "o" [] c = "P" -> "p"
    [] c = "Q" -> "q" [] c = "R" -> "r" [] c = "S" -> "s" [] c = "T" -> "t"
    [] c = "U" -> "u" [] c = "V" -> "v" [] c = "W" -> "w" [] c = "X" -> "x"
    [] c = "Y" -> "y" [] c = "Z" -> "z"
    [] OTHER -> c

toLowerCase(s) == [i \in 1..Len(s) |-> LowerChar(s[i])]

SeqRange(q) == {q[i] : i \in 1..Len(q)}

(***************************************************************************)
(* new RegExp(pattern.replace(/\*/g, '.*')).test(text): "*" becomes ".*",  *)
(* "." stays the regex wildcard, every other character is a literal, and   *)
(* the test is not anchored.                                               *)
(***************************************************************************)
RECURSIVE RegexMatchAt(_, _, _, _)
RegexMatchAt(pat, i, text, j) ==
  IF i > Len(pat) THEN TRUE
  ELSE IF pat[i] = "*"
       THEN \E k \in j..(Len(text) + 1) : RegexMatchAt(pat, i + 1, text, k)
       ELSE /\ j <= Len(text)
            /\ (pat[i] = "." \/ pat[i] = text[j])
            /\ RegexMatchAt(pat, i + 1, text, j + 1)

GlobRegexTest(pat, text) ==
  \E j \in 1..(Len(text) + 1) : RegexMatchAt(pat, 1, text, j)

(***************************************************************************)
(* The workspace on disk.  The names a directory can hold are fixed; what  *)
(* changes is each entry (present or not, readable or not, its mtime and   *)
(* content) and whether the root can be read.                              *)
(***************************************************************************)
Root == <<"/", "w">>

NameA == <<"a", ".", "t", "s">>
NameDist == <<"d", "i", "s", "t">>
NameB == <<"b", ".", "j", "s">>
NameLib == <<"l", "i", "b">>
NameC == <<"c", ".", "t", "e", "s", "t", ".", "t", "s">>
NameD == <<"d", ".", "t", "s">>
NameAdmin == <<"a", "d", "m", "i", "n", ".", "j", "s">>
NameLayout == <<"l", "a", "y", "o", "u", "t">>
NameE == <<"e", ".", "t", "s">>
NameTmp == <<"t", "m", "p", "1">>
NameF == <<"f", ".", "p", "y">>
NameR == <<"r", ".", "m", "d">>

DirDist == pathJoin(Root, NameDist)
DirLib == pathJoin(Root, NameLib)
DirLayout == pathJoin(Root, NameLayout)
DirTmp == pathJoin(Root, NameTmp)

FileA == pathJoin(Root, NameA)
FileB == pathJoin(DirDist, NameB)
FileC == pathJoin(DirLib, NameC)
FileD == pathJoin(DirLib, NameD)
FileAdmin == pathJoin(Root, NameAdmin)
FileE == pathJoin(DirLayout, NameE)
FileF == pathJoin(DirTmp, NameF)
FileR == pathJoin(DirLib, NameR)

\* the files that change while the indexer runs
Paths == {FileA, FileB}

\* the entries that are always there, unchanged, unless a file system says
\* otherwise; any other entry a file system does not mention is absent
StaticPaths == {DirDist, DirLib, FileC, FileD}

\* fs.readdirSync(dir): the names the directory holds when they are all
\* present, in directory order
DirEntries(dir) ==
  CASE dir = Root -> <<NameA, NameAdmin, NameDist, NameLayout, NameLib, NameTmp>>
    [] dir = DirDist -> <<NameB>>
    [] dir = DirLayout -> <<NameE>>
    [] dir = DirLib -> <<NameC, NameD, NameR>>
    [] dir = DirTmp -> <<NameF>>
    [] OTHER -> <<>>

IsDirectory(p) == p \in {Root, DirDist, DirLayout, DirLib, DirTmp}

\* A file on disk: mode "ok" (stat and read succeed), "noread" (stat succeeds,
\* reading fails), "nostat" (listed by readdir, stat fails: a dangling link),
\* "absent".  The content of a readable file is len characters of variant var;
\* two variants of the same length are two texts of that length.
Absent == [mode |-> "absent", mtime |-> 0, len |-> 0, var |-> 0]
NoStat == [mode |-> "nostat", mtime |-> 0, len |-> 0, var |-> 0]
NoRead == [mode |-> "noread", mtime |-> 1, len |-> 1, var |-> 0]

Contents ==
  {c \in [mode : {"ok"}, mtime : 1..MaxTime, len : 1..MaxLen, var : 0..1] :
     c.var = 1 => c.len = 2}

FileStates == Contents \cup {Absent, NoStat, NoRead}

InitialFile == [mode |-> "ok", mtime |-> 1, len |-> 2, var |-> 0]
StaticFile == [mode |-> "ok", mtime |-> 1, len |-> 1, var |-> 0]

\* the state of path p in file system f
FileAt(f, p) ==
  IF p \in DOMAIN f THEN f[p]
  ELSE IF p \in StaticPaths THEN StaticFile
  ELSE Absent

StatOk(s) == s.mode \in {"ok", "noread"}
ReadOk(s) == s.mode = "ok"
Listed(s) == s.mode # "absent"

\* what another process can do to a file in one step, with the watcher event
\* the change raises; a change to the same variant one character longer is an
\* append of one character
IsAppend(s, x) == x.mode = "ok" /\ x.len = s.len + 1 /\ x.var = s.var

FsChanges(s) ==
  IF s.mode = "absent"
  THEN {[to |-> c, ev |-> "create", append |-> FALSE] :
          c \in Contents \cup {NoStat, NoRead}}
  ELSE {[to |-> Absent, ev |-> "delete", append |-> FALSE]}
       \cup (IF s.mode = "ok"
             THEN {[to |-> c, ev |-> "change", append |-> IsAppend(s, c)] :
                     c \in (Contents \cup {NoRead}) \ {s}}
             ELSE {[to |-> c, ev |-> "change", append |-> FALSE] : c \in Contents})

(***************************************************************************)
(* The indexer's configuration (IndexerConfig), as SearchCommand builds it. *)
(* maxFileSize is scaled down to the model's file lengths.                 *)
(***************************************************************************)
maxFileSize == 2

ConfigExcludePatterns ==
  << <<"n", "o", "d", "e", "_", "m", "o", "d", "u", "l", "e", "s">>,
     <<".", "g", "i", "t">>,
     <<"d", "i", "s", "t">>,
     <<"b", "u", "i", "l", "d">> >>

supportedExtensions ==
  { <<".", "t", "s">>, <<".", "t", "s", "x">>, <<".", "j", "s">>,
    <<".", "j", "s", "x">>, <<".", "p", "y">> }

DirExcludePatterns ==
  << <<"n", "o", "d", "e", "_", "m", "o", "d", "u", "l", "e", "s">>,
     <<".", "g", "i", "t">>,
     <<".", "v", "s", "c", "o", "d", "e">>,
     <<"d", "i", "s", "t">>,
     <<"b", "u", "i", "l", "d">>,
     <<"o", "u", "t">>,
     <<"c", "o", "v", "e", "r", "a", "g", "e">>,
     <<".", "n", "y", "c", "_", "o", "u", "t", "p", "u", "t">> >>

FileExcludePatterns ==
  << <<"*", ".", "m", "i", "n", ".", "j", "s">>,
     <<"*", ".", "d", ".", "t", "s">>,
     <<"*", ".", "t", "e", "s", "t", ".", "t", "s">>,
     <<"*", ".", "s", "p", "e", "c", ".", "t", "s">>,
     <<"*", ".", "t", "e", "s", "t", ".", "j", "s">>,
     <<"*", ".", "s", "p", "e", "c", ".", "j", "s">> >>

shouldExcludeDirectory(cfg, dirPath) ==
  LET dirName == basename(dirPath)
      excludePatterns == DirExcludePatterns \o cfg.excludePatterns
  IN \E pattern \in SeqRange(excludePatterns) :
       IF Includes(pattern, <<"*">>)
       THEN GlobRegexTest(pattern, dirPath)
       ELSE dirName = pattern \/ Includes(dirPath, pattern)

shouldExcludeFile(cfg, filePath) ==
  LET fileName == basename(filePath)
      excludePatterns == FileExcludePatterns \o cfg.excludePatterns
  IN \E pattern \in SeqRange(excludePatterns) :
       IF Includes(pattern, <<"*">>)
       THEN GlobRegexTest(pattern, fileName)
       ELSE fileName = pattern

(***************************************************************************)
(* findCodeFiles: the depth-first walk.  A directory that cannot be read,  *)
(* or an entry whose stat fails, throws inside traverse's try block: the   *)
(* catch logs it and that directory's loop ends there; the files pushed so *)
(* far stay in the list.                                                   *)
(***************************************************************************)
RECURSIVE traverse(_, _, _, _, _)
traverse(cfg, f, rootReadable, dir, i) ==
  LET items == DirEntries(dir)
  IN IF (dir = Root /\ ~rootReadable) \/ i > Len(items) THEN <<>>
     ELSE LET itemPath == pathJoin(dir, items[i])
              st == FileAt(f, itemPath)
              rest == traverse(cfg, f, rootReadable, dir, i + 1)
          IN IF ~Listed(st) THEN rest
             ELSE IF ~StatOk(st) THEN <<>>
             ELSE IF IsDirectory(itemPath)
             THEN (IF shouldExcludeDirectory(cfg, itemPath) THEN <<>>
                   ELSE traverse(cfg, f, rootReadable, itemPath, 1)) \o rest
             ELSE IF /\ toLowerCase(extname(items[i])) \in supportedExtensions
                     /\ ~shouldExcludeFile(cfg, itemPath)
                  THEN <<itemPath>> \o rest
                  ELSE rest

findCodeFiles(cfg, f, rootReadable) == traverse(cfg, f, rootReadable, Root, 1)

(***************************************************************************)
(* The parser, as far as the index sees it: parseFile(filePath) reads the  *)
(* file and returns its declarations, each carrying the path it was parsed *)
(* from.  A content of len characters of variant var declares len items.   *)
(***************************************************************************)
DeclAt(v, i) ==
  CASE <<v, i>> = <<0, 1>> ->
         [name |-> <<"a", "b">>, type |-> "function",
          signature |-> <<"a", "b", "(", ")">>, description |-> <<>>]
    [] <<v, i>> = <<0, 2>> ->
         [name |-> <<"B">>, type |-> "class",
          signature |-> <<>>, description |-> <<"a">>]
    [] <<v, i>> = <<1, 1>> ->
         [name |-> <<"b">>, type |-> "function",
          signature |-> <<"b", "(", ")">>, description |-> <<"a">>]
    [] <<v, i>> = <<1, 2>> ->
         [name |-> <<"a">>, type |-> "variable",
          signature |-> <<>>, description |-> <<>>]
    [] OTHER ->
         [name |-> <<"b", "a">>, type |-> "method",
          signature |-> <<"b", "a", "(", ")">>, description |-> <<"b">>]

\* the values of the Language enum the parser tags a file with
LanguageTypeScript == <<"t", "y", "p", "e", "s", "c", "r", "i", "p", "t">>
LanguageJavaScript == <<"j", "a", "v", "a", "s", "c", "r", "i", "p", "t">>

getLanguage(filePath) ==
  LET ext == toLowerCase(extname(filePath))
  IN IF ext = <<".", "t", "s">> \/ ext = <<".", "t", "s", "x">>
     THEN LanguageTypeScript ELSE LanguageJavaScript

\* the elements of parseFile(filePath) when the file read has content st
parseFile(filePath, st) ==
  [i \in 1..st.len |->
     [name |-> DeclAt(st.var, i).name,
      type |-> DeclAt(st.var, i).type,
      signature |-> DeclAt(st.var, i).signature,
      description |-> DeclAt(st.var, i).description,
      filePath |-> filePath]]

\* Number.prototype.toString for the one-digit numbers of the model
Digit(n) ==
  CASE n = 0 -> "0" [] n = 1 -> "1" [] n = 2 -> "2" [] n = 3 -> "3"
    [] n = 4 -> "4" [] n = 5 -> "5" [] n = 6 -> "6" [] n = 7 -> "7"
    [] n = 8 -> "8" [] OTHER -> "9"

\* a fingerprint of the modification time alone
calculateFileHash_mtimeOnly(st) == <<Digit(st.mtime)>>

\* `${stats.mtime.getTime()}-${content.length}`
calculateFileHash(st) == <<Digit(st.mtime), "-", Digit(st.len)>>

(***************************************************************************)
(* indexFile up to its await.  s1 is the file as statSync sees it, s2 as   *)
(* calculateFileHash reads it, s3 as parseFile reads it (another process   *)
(* may have written in between).  The result says what the call does:      *)
(* "error" (an exception, caught and logged), "large" (skipped),           *)
(* "unchanged" (same fingerprint, no parse), or "parsed" with the          *)
(* FileIndex that the continuation stores.                                 *)
(***************************************************************************)
NoRec == [filePath |-> <<>>]

\* indexFile without its try/catch around statSync
indexFileRun_uncaught(filePath, s1, s2, s3, existingIndex) ==
  IF ~StatOk(s1) THEN [kind |-> "error", threw |-> TRUE]
  ELSE IF s1.len > maxFileSize THEN [kind |-> "large", threw |-> FALSE]
  ELSE IF ~ReadOk(s2) THEN [kind |-> "error", threw |-> TRUE]
  ELSE IF existingIndex # NoRec /\ existingIndex.hash = calculateFileHash(s2)
       THEN [kind |-> "unchanged", threw |-> FALSE]
  ELSE IF ~ReadOk(s3) THEN [kind |-> "error", threw |-> TRUE]
  ELSE [kind |-> "parsed", threw |-> FALSE,
        fileIndex |-> [filePath |-> filePath,
                       language |-> getLanguage(filePath),
                       elements |-> parseFile(filePath, s3),
                       lastModified |-> s1.mtime,
                       hash |-> calculateFileHash(s2)]]

\* indexFile without the comparison of fingerprints
indexFileRun_alwaysParse(filePath, s1, s2, s3, existingIndex) ==
  IF ~StatOk(s1) THEN [kind |-> "error", threw |-> FALSE]
  ELSE IF s1.len > maxFileSize THEN [kind |-> "large", threw |-> FALSE]
  ELSE IF ~ReadOk(s2) \/ ~ReadOk(s3) THEN [kind |-> "error", threw |-> FALSE]
  ELSE [kind |-> "parsed", threw |-> FALSE,
        fileIndex |-> [filePath |-> filePath,
                       language |-> getLanguage(filePath),
                       elements |-> parseFile(filePath, s3),
                       lastModified |-> s1.mtime,
                       hash |-> calculateFileHash(s2)]]

indexFileRun(filePath, s1, s2, s3, existingIndex) ==
  IF ~StatOk(s1) THEN [kind |-> "error", threw |-> FALSE]
  ELSE IF s1.len > maxFileSize THEN [kind |-> "large", threw |-> FALSE]
  ELSE IF ~ReadOk(s2) THEN [kind |-> "error", threw |-> FALSE]
  ELSE IF existingIndex # NoRec /\ existingIndex.hash = calculateFileHash(s2)
       THEN [kind |-> "unchanged", threw |-> FALSE]
  ELSE IF ~ReadOk(s3) THEN [kind |-> "error", threw |-> FALSE]
  ELSE [kind |-> "parsed", threw |-> FALSE,
        fileIndex |-> [filePath |-> filePath,
                       language |-> getLanguage(filePath),
                       elements |-> parseFile(filePath, s3),
                       lastModified |-> s1.mtime,
                       hash |-> calculateFileHash(s2)]]

(***************************************************************************)
(* The index (WorkspaceIndex): files and elements are the two maps.  A     *)
(* path without a FileIndex maps to NoRec in files.  The keys of the       *)
(* elements map are the paths in order, its key order (a Map iterates in   *)
(* insertion order; setting a key that is there keeps its place);          *)
(* elements[p] of a path that is no key is the empty list.                 *)
(* storeFileIndex is the body of indexFile after its await, removeFile the *)
(* two deletes.                                                            *)
(***************************************************************************)

SelectNot(q, x) == SelectSeq(q, LAMBDA y : y # x)

\* a store that keeps the fingerprint of the entry it finds
storeFileIndex_merge(idx, fileIndex) ==
  LET old == idx.files[fileIndex.filePath]
      new == IF old = NoRec THEN fileIndex ELSE [fileIndex EXCEPT !.hash = old.hash]
  IN [files |-> [idx.files EXCEPT ![fileIndex.filePath] = new],
      elements |-> [idx.elements EXCEPT ![fileIndex.filePath] = new.elements],
      order |-> IF fileIndex.filePath \in SeqRange(idx.order)
                THEN idx.order
                ELSE Append(idx.order, fileIndex.filePath)]

storeFileIndex(idx, fileIndex) ==
  [files |-> [idx.files EXCEPT ![fileIndex.filePath] = fileIndex],
   elements |-> [idx.elements EXCEPT ![fileIndex.filePath] = fileIndex.elements],
   order |-> IF fileIndex.filePath \in SeqRange(idx.order)
             THEN idx.order
             ELSE Append(idx.order, fileIndex.filePath)]

\* removeFile without the delete from the elements map
removeFile_filesOnly(idx, filePath) ==
  [files |-> [idx.files EXCEPT ![filePath] = NoRec],
   elements |-> idx.elements,
   order |-> idx.order]

\* removeFile that clears both maps
removeFile_clear(idx, filePath) ==
  [files |-> [p \in DOMAIN idx.files |-> NoRec],
   elements |-> [p \in DOMAIN idx.elements |-> <<>>],
   order |-> <<>>]

removeFile(idx, filePath) ==
  [files |-> [idx.files EXCEPT ![filePath] = NoRec],
   elements |-> [idx.elements EXCEPT ![filePath] = <<>>],
   order |-> SelectNot(idx.order, filePath)]

RECURSIVE flatten(_, _, _)
flatten(els, order, i) ==
  IF i > Len(order) THEN <<>>
  ELSE els[order[i]] \o flatten(els, order, i + 1)

getAllElements(idx) == flatten(idx.elements, idx.order, 1)

(***************************************************************************)
(* The file watcher: fileWatcher is the indexer's field ("undefined",      *)
(* "active", or "disposed": set, but disposed of), active the number of    *)
(* watchers that are registered with the host and not disposed of.         *)
(***************************************************************************)
dispose(w) ==
  IF w.fileWatcher = "active"
  THEN [fileWatcher |-> "disposed", active |-> w.active - 1]
  ELSE w

setupFileWatcher(w) ==
  [fileWatcher |-> "active", active |-> dispose(w).active + 1]

\* the listeners with onDidChange and onDidDelete exchanged
watcherHandler_swapped(ev) ==
  CASE ev = "create" -> "indexFile"
    [] ev = "delete" -> "indexFile"
    [] OTHER -> "removeFile"

\* what the three listeners of the watcher call
watcherHandler(ev) ==
  CASE ev = "create" -> "indexFile"
    [] ev = "change" -> "indexFile"
    [] OTHER -> "removeFile"

(***************************************************************************)
(* The ranking engine (SearchEngine).  Scores are exact fractions          *)
(* [num, den] with the weights in hundredths: 1.5 is 150.                  *)
(***************************************************************************)
ListIncludes(q, x) == x \in SeqRange(q)

normalize(text, caseSensitive) == IF caseSensitive THEN text ELSE toLowerCase(text)

\* [...new Set(keywords)]: the first occurrence of each, in order
RECURSIVE Unique(_)
Unique(q) ==
  IF q = <<>> THEN <<>>
  ELSE LET r == Unique(SubSeq(q, 1, Len(q) - 1))
       IN IF q[Len(q)] \in SeqRange(r) THEN r ELSE Append(r, q[Len(q)])

\* getNameMatchScore giving a plain containment 0.1
getNameMatchScore_weakContainment(elementName, keyword) ==
  IF elementName = keyword THEN 150
  ELSE IF StartsWith(elementName, keyword) THEN 120
  ELSE IF EndsWith(elementName, keyword) THEN 80
  ELSE IF Includes(elementName, keyword) THEN 10
  ELSE 0

getNameMatchScore(elementName, keyword) ==
  IF elementName = keyword THEN 150
  ELSE IF StartsWith(elementName, keyword) THEN 120
  ELSE IF EndsWith(elementName, keyword) THEN 80
  ELSE IF Includes(elementName, keyword) THEN 60
  ELSE 0

\* a keyword scored in every field it is found in, not only in the first
KeywordScore_allFields(element, keyword, caseSensitive) ==
  LET elementName == normalize(element.name, caseSensitive)
      elementSignature == normalize(element.signature, caseSensitive)
      elementDescription == normalize(element.description, caseSensitive)
      normalizedKeyword == normalize(keyword, caseSensitive)
      inName == Includes(elementName, normalizedKeyword)
      inSignature == Includes(elementSignature, normalizedKeyword)
      inDescription == Includes(elementDescription, normalizedKeyword)
  IN [found |-> inName \/ inSignature \/ inDescription,
      add |-> (IF inName
               THEN (15 * getNameMatchScore(elementName, normalizedKeyword)) \div 10
               ELSE 0)
              + (IF inSignature THEN 60 ELSE 0)
              + (IF inDescription THEN 30 ELSE 0)]

\* what one keyword adds to baseScore (0: not found in any field)
KeywordScore(element, keyword, caseSensitive) ==
  LET elementName == normalize(element.name, caseSensitive)
      elementSignature == normalize(element.signature, caseSensitive)
      elementDescription == normalize(element.description, caseSensitive)
      normalizedKeyword == normalize(keyword, caseSensitive)
  IN IF Includes(elementName, normalizedKeyword)
     THEN [found |-> TRUE,
           add |-> (15 * getNameMatchScore(elementName, normalizedKeyword)) \div 10]
     ELSE IF Includes(elementSignature, normalizedKeyword)
     THEN [found |-> TRUE, add |-> 60]
     ELSE IF Includes(elementDescription, normalizedKeyword)
     THEN [found |-> TRUE, add |-> 30]
     ELSE [found |-> FALSE, add |-> 0]

RECURSIVE SumScores(_, _, _, _)
SumScores(element, keywords, caseSensitive, i) ==
  IF i > Len(keywords) THEN [baseScore |-> 0, matchedKeywordsCount |-> 0]
  ELSE LET k == KeywordScore(element, keywords[i], caseSensitive)
           rest == SumScores(element, keywords, caseSensitive, i + 1)
       IN [baseScore |-> k.add + rest.baseScore,
           matchedKeywordsCount |->
             (IF k.found THEN 1 ELSE 0) + rest.matchedKeywordsCount]

ZeroScore == [num |-> 0, den |-> 1]

ScoreGE(a, b) == a.num * b.den >= b.num * a.den

\* calculateScore dividing by keywords.length * 1.5 + 0.2 and not capped
calculateScore_roughBound(element, query, caseSensitive) ==
  LET keywords == Unique(query.keywords)
      n == Len(keywords)
      sums == SumScores(element, keywords, caseSensitive, 1)
      m == sums.matchedKeywordsCount
      bonus == IF query.intent = "find_functions" /\ element.type = "function"
               THEN 20
               ELSE IF ListIncludes(query.elementTypes, element.type) THEN 10
               ELSE 0
  IN IF n = 0 THEN ZeroScore
     ELSE IF m = 0 THEN ZeroScore
     ELSE IF n > 1 /\ 2 * m < n THEN ZeroScore
     ELSE [num |-> sums.baseScore * m * m + bonus * n * n,
           den |-> n * n * (n * 150 + 20)]

\* calculateScore without the completeness cutoff of lines 118-120
calculateScore_noCutoff(element, query, caseSensitive) ==
  LET keywords == Unique(query.keywords)
      n == Len(keywords)
      sums == SumScores(element, keywords, caseSensitive, 1)
      m == sums.matchedKeywordsCount
      bonus == IF query.intent = "find_functions" /\ element.type = "function"
               THEN 20
               ELSE IF ListIncludes(query.elementTypes, element.type) THEN 10
               ELSE 0
      num == sums.baseScore * m * m + bonus * n * n
      den == n * n * (n * 225 + 20)
  IN IF n = 0 THEN ZeroScore
     ELSE IF m = 0 THEN ZeroScore
     ELSE IF num >= den THEN [num |-> 1, den |-> 1]
     ELSE [num |-> num, den |-> den]

calculateScore(element, query, caseSensitive) ==
  LET keywords == Unique(query.keywords)
      n == Len(keywords)
      sums == SumScores(element, keywords, caseSensitive, 1)
      m == sums.matchedKeywordsCount
      bonus == IF query.intent = "find_functions" /\ element.type = "function"
               THEN 20
               ELSE IF ListIncludes(query.elementTypes, element.type) THEN 10
               ELSE 0
      num == sums.baseScore * m * m + bonus * n * n
      den == n * n * (n * 225 + 20)
  IN IF n = 0 THEN ZeroScore
     ELSE IF m = 0 THEN ZeroScore
     ELSE IF n > 1 /\ 2 * m < n THEN ZeroScore
     ELSE IF num >= den THEN [num |-> 1, den |-> 1]
     ELSE [num |-> num, den |-> den]

\* getMatchedKeywords looking for the keywords in the name alone
getMatchedKeywords_nameOnly(element, keywords, caseSensitive) ==
  SelectSeq(keywords,
            LAMBDA kw : Includes(normalize(element.name, caseSensitive),
                                 normalize(kw, caseSensitive)))

\* element.parameters?.map(p => p.name) || [], each name after a space as
\* join(' ') puts it
RECURSIVE joinParameterNames(_, _)
joinParameterNames(element, i) ==
  IF "parameters" \notin DOMAIN element THEN <<>>
  ELSE IF i > Len(element.parameters) THEN <<>>
  ELSE <<" ">> \o element.parameters[i].name \o joinParameterNames(element, i + 1)

getMatchedKeywords(element, keywords, caseSensitive) ==
  LET searchableText ==
        element.name \o <<" ">> \o element.description \o <<" ">> \o element.signature
          \o joinParameterNames(element, 1)
      normalizedSearchable == normalize(searchableText, caseSensitive)
  IN SelectSeq(keywords,
               LAMBDA kw : Includes(normalizedSearchable, normalize(kw, caseSensitive)))

\* getRelevanceReason: the rationale before it is rendered as text, "General
\* relevance match" or "Matches <matched> of <total> keywords: <keywords>"
getRelevanceReason(element, query, matchedKeywords) ==
  IF Len(matchedKeywords) = 0
  THEN [general |-> TRUE, matched |-> 0, total |-> 0, keywords |-> <<>>]
  ELSE [general |-> FALSE, matched |-> Len(matchedKeywords),
        total |-> Cardinality(SeqRange(query.keywords)),
        keywords |-> matchedKeywords]

\* matchesPattern: the pattern as an anchored regular expression, `*` any run
\* of characters, `?` any one character, everything else itself
RECURSIVE PatternMatchAt(_, _, _, _)
PatternMatchAt(pat, i, text, j) ==
  IF i > Len(pat) THEN j > Len(text)
  ELSE IF pat[i] = "*"
  THEN \E k \in j..(Len(text) + 1) : PatternMatchAt(pat, i + 1, text, k)
  ELSE /\ j <= Len(text)
       /\ pat[i] = "?" \/ pat[i] = text[j]
       /\ PatternMatchAt(pat, i + 1, text, j + 1)

matchesPattern(filePath, pattern) == PatternMatchAt(pattern, 1, filePath, 1)

\* a sort by descending score that puts a result before the results of equal
\* score that came before it
RECURSIVE SortByScore_tiesReversed(_)
SortByScore_tiesReversed(q) ==
  IF Len(q) <= 1 THEN q
  ELSE LET a == SortByScore_tiesReversed(SubSeq(q, 1, Len(q) \div 2))
           b == SortByScore_tiesReversed(SubSeq(q, Len(q) \div 2 + 1, Len(q)))
           placeA(i) ==
             i + Cardinality({j \in 1..Len(b) :
                                b[j].score.num * a[i].score.den
                                  >= a[i].score.num * b[j].score.den})
           placeB(j) ==
             j + Cardinality({i \in 1..Len(a) :
                                a[i].score.num * b[j].score.den
                                  > b[j].score.num * a[i].score.den})
       IN [p \in 1..(Len(a) + Len(b)) |->
             IF \E i \in 1..Len(a) : placeA(i) = p
             THEN a[CHOOSE i \in 1..Len(a) : placeA(i) = p]
             ELSE b[CHOOSE j \in 1..Len(b) : placeB(j) = p]]

\* two lists in descending order of score merged into one: a result of the
\* second list goes after the results of the first whose score is at least
\* its own
mergeByScore(a, b) ==
  LET placeA(i) ==
        i + Cardinality({j \in 1..Len(b) : ~ScoreGE(a[i].score, b[j].score)})
      placeB(j) ==
        j + Cardinality({i \in 1..Len(a) : ScoreGE(a[i].score, b[j].score)})
  IN [p \in 1..(Len(a) + Len(b)) |->
        IF \E i \in 1..Len(a) : placeA(i) = p
        THEN a[CHOOSE i \in 1..Len(a) : placeA(i) = p]
        ELSE b[CHOOSE j \in 1..Len(b) : placeB(j) = p]]

\* Array.prototype.sort with (a, b) => b.score - a.score: a stable merge
\* sort, descending
RECURSIVE SortByScore(_)
SortByScore(q) ==
  IF Len(q) <= 1 THEN q
  ELSE mergeByScore(SortByScore(SubSeq(q, 1, Len(q) \div 2)),
                    SortByScore(SubSeq(q, Len(q) \div 2 + 1, Len(q))))

\* the defaults of the options search destructures (lines 15-22); options is a
\* record that has only the fields the caller gave
DefaultMaxResults == 50
DefaultThreshold == [num |-> 2, den |-> 10]

searchOptions(options) ==
  [maxResults |-> IF "maxResults" \in DOMAIN options
                  THEN options.maxResults ELSE DefaultMaxResults,
   threshold |-> IF "threshold" \in DOMAIN options
                 THEN options.threshold ELSE DefaultThreshold,
   caseSensitive |-> IF "caseSensitive" \in DOMAIN options
                     THEN options.caseSensitive ELSE FALSE,
   languages |-> IF "languages" \in DOMAIN options THEN options.languages ELSE <<>>,
   filePatterns |-> IF "filePatterns" \in DOMAIN options
                    THEN options.filePatterns ELSE <<>>]

\* lines 24-42 of search: the candidates left by the three filters
filterElements(elements, query, options) ==
  LET o == searchOptions(options)
      byType == IF Len(query.elementTypes) > 0
                THEN SelectSeq(elements,
                               LAMBDA e : ListIncludes(query.elementTypes, e.type))
                ELSE elements
      byLanguage == IF Len(o.languages) > 0
                    THEN SelectSeq(byType, LAMBDA e :
                           \E lang \in SeqRange(o.languages) :
                             EndsWith(e.filePath, <<".">> \o lang))
                    ELSE byType
  IN IF Len(o.filePatterns) > 0
     THEN SelectSeq(byLanguage, LAMBDA e :
            \E pattern \in SeqRange(o.filePatterns) :
              matchesPattern(e.filePath, pattern))
     ELSE byLanguage

\* lines 24-66 of search: the list it returns
searchResults(elements, query, options) ==
  LET o == searchOptions(options)
      filteredElements == filterElements(elements, query, options)
      scored == [i \in 1..Len(filteredElements) |->
                   [element |-> filteredElements[i],
                    score |-> calculateScore(filteredElements[i], query,
                                             o.caseSensitive),
                    matchedKeywords |->
                      getMatchedKeywords(filteredElements[i], query.keywords,
                                         o.caseSensitive),
                    relevanceReason |->
                      getRelevanceReason(
                        filteredElements[i], query,
                        getMatchedKeywords(filteredElements[i], query.keywords,
                                           o.caseSensitive))]]
      results == SelectSeq(scored, LAMBDA r : ScoreGE(r.score, o.threshold))
      sorted == SortByScore(results)
  IN SubSeq(sorted, 1, IF Len(sorted) < o.maxResults
                       THEN Len(sorted) ELSE o.maxResults)

\* a search that sorts this.elements itself, in place, by score
search_inPlace(elements, query, options) ==
  LET scoredAll == [i \in 1..Len(elements) |->
                      [element |-> elements[i],
                       score |-> calculateScore(elements[i], query,
                                                searchOptions(options).caseSensitive)]]
      sortedAll == SortByScore(scoredAll)
  IN [results |-> searchResults(elements, query, options),
      elements |-> [i \in 1..Len(elements) |-> sortedAll[i].element]]

\* search: what it returns, and the array this.elements refers to as the call
\* leaves it
search(elements, query, options) ==
  [results |-> searchResults(elements, query, options),
   elements |-> elements]

(***************************************************************************)
(* The declaration parser (TypeScriptParser) on the syntax tree that       *)
(* ts.createSourceFile builds.  A node is [kind, name, modifiers,          *)
(* children, start, end]: kind and the modifiers are members of            *)
(* ts.SyntaxKind, name is the text of an identifier, start and end are the *)
(* offsets node.getStart() and node.getEnd() return (start is the first    *)
(* character of the node's first token, end the offset after its last      *)
(* token); a source file also carries its text and the syntax errors the   *)
(* TypeScript parser found (parseDiagnostics).                             *)
(***************************************************************************)
\* ts.SyntaxKind[kind]: the name of the enum member
SyntaxKindName(kind) ==
  CASE kind = "PrivateKeyword" ->
         <<"P", "r", "i", "v", "a", "t", "e", "K", "e", "y", "w", "o", "r", "d">>
    [] kind = "PublicKeyword" ->
         <<"P", "u", "b", "l", "i", "c", "K", "e", "y", "w", "o", "r", "d">>
    [] kind = "StaticKeyword" ->
         <<"S", "t", "a", "t", "i", "c", "K", "e", "y", "w", "o", "r", "d">>
    [] OTHER ->
         <<"E", "x", "p", "o", "r", "t", "K", "e", "y", "w", "o", "r", "d">>

canHaveModifiers(node) ==
  node.kind \in {"FunctionDeclaration", "ClassDeclaration", "MethodDeclaration",
                 "PropertyDeclaration", "InterfaceDeclaration",
                 "TypeAliasDeclaration", "EnumDeclaration", "VariableStatement"}

getModifiers(node) ==
  IF canHaveModifiers(node)
  THEN [i \in 1..Len(node.modifiers) |->
          toLowerCase(SyntaxKindName(node.modifiers[i]))]
  ELSE <<>>

Private == <<"p", "r", "i", "v", "a", "t", "e">>

\* ts.computeLineStarts: the offsets at which a line starts, 0 and the offset
\* after every line break ("\n", "\r\n", or "\r" alone)
computeLineStarts(text) ==
  {0} \cup {i \in 1..Len(text) :
              \/ text[i] = "\n"
              \/ text[i] = "\r" /\ (i = Len(text) \/ text[i + 1] # "\n")}

\* sourceFile.getLineAndCharacterOfPosition(position), both 0-based
getLineAndCharacterOfPosition(text, position) ==
  LET before == {s \in computeLineStarts(text) : s <= position}
      lineStart == CHOOSE s \in before : \A t \in before : t <= s
  IN [line |-> Cardinality(before) - 1, character |-> position - lineStart]

\* getPosition reporting the 0-based line and column of the host
getPosition_zeroBased(node, text) ==
  LET start == getLineAndCharacterOfPosition(text, node.start)
      end == getLineAndCharacterOfPosition(text, node.end)
  IN [startLine |-> start.line, endLine |-> end.line,
      startColumn |-> start.character, endColumn |-> end.character]

getPosition(node, text) ==
  LET start == getLineAndCharacterOfPosition(text, node.start)
      end == getLineAndCharacterOfPosition(text, node.end)
  IN [startLine |-> start.line + 1, endLine |-> end.line + 1,
      startColumn |-> start.character + 1, endColumn |-> end.character + 1]

\* processFunctionDeclaration, processClassDeclaration,
\* processMethodDeclaration and processPropertyDeclaration: what each pushes
processDeclaration(node, sourceFile, options, type) ==
  LET modifiers == getModifiers(node)
      position == getPosition(node, sourceFile.text)
  IN IF node.name = <<>> THEN <<>>
     ELSE IF ~options.includePrivate /\ ListIncludes(modifiers, Private) THEN <<>>
     ELSE << [name |-> node.name, type |-> type, filePath |-> sourceFile.fileName,
              startLine |-> position.startLine, endLine |-> position.endLine,
              startColumn |-> position.startColumn, endColumn |-> position.endColumn,
              modifiers |-> modifiers] >>

\* the switch of visitNode
processNode(node, sourceFile, options) ==
  CASE node.kind = "FunctionDeclaration" ->
         processDeclaration(node, sourceFile, options, "function")
    [] node.kind = "ClassDeclaration" ->
         processDeclaration(node, sourceFile, options, "class")
    [] node.kind = "MethodDeclaration" ->
         processDeclaration(node, sourceFile, options, "method")
    [] node.kind = "PropertyDeclaration" ->
         processDeclaration(node, sourceFile, options, "property")
    [] OTHER -> <<>>

\* this.options.maxDepth || 10
maxDepthOf(options) == IF options.maxDepth = 0 THEN 10 ELSE options.maxDepth

RECURSIVE visitNode(_, _, _, _)
RECURSIVE visitChildren(_, _, _, _, _)
visitNode(node, sourceFile, options, depth) ==
  IF depth > maxDepthOf(options) THEN <<>>
  ELSE processNode(node, sourceFile, options)
         \o visitChildren(node.children, sourceFile, options, depth + 1, 1)

\* ts.forEachChild(node, child => this.visitNode(child, ..., depth + 1))
visitChildren(children, sourceFile, options, depth, i) ==
  IF i > Len(children) THEN <<>>
  ELSE visitNode(children[i], sourceFile, options, depth)
         \o visitChildren(children, sourceFile, options, depth, i + 1)

\* parseFile once the file is read and ts.createSourceFile has returned
\* sourceFile: nothing is ever pushed on errors
parseSourceFile(sourceFile, options) ==
  [filePath |-> sourceFile.fileName,
   language |-> getLanguage(sourceFile.fileName),
   elements |-> visitNode(sourceFile, sourceFile, options, 0),
   errors |-> <<>>]

(***************************************************************************)
(* The query parser (QueryParser): free text to a structured query.        *)
(***************************************************************************)
FUNCTION_KEYWORDS ==
  {<<"f", "u", "n", "c", "t", "i", "o", "n">>,
   <<"f", "u", "n", "c", "t", "i", "o", "n", "s">>, <<"m", "e", "t", "h", "o", "d">>,
   <<"m", "e", "t", "h", "o", "d", "s">>,
   <<"p", "r", "o", "c", "e", "d", "u", "r", "e">>,
   <<"p", "r", "o", "c", "e", "d", "u", "r", "e", "s">>,
   <<"r", "o", "u", "t", "i", "n", "e">>, <<"r", "o", "u", "t", "i", "n", "e", "s">>,
   <<"f", "u", "n", "c">>, <<"d", "e", "f">>, <<"l", "a", "m", "b", "d", "a">>}

CLASS_KEYWORDS ==
  {<<"c", "l", "a", "s", "s">>, <<"c", "l", "a", "s", "s", "e", "s">>,
   <<"o", "b", "j", "e", "c", "t">>, <<"o", "b", "j", "e", "c", "t", "s">>,
   <<"t", "y", "p", "e">>, <<"t", "y", "p", "e", "s">>,
   <<"s", "t", "r", "u", "c", "t">>, <<"s", "t", "r", "u", "c", "t", "s">>,
   <<"i", "n", "t", "e", "r", "f", "a", "c", "e">>,
   <<"i", "n", "t", "e", "r", "f", "a", "c", "e", "s">>}

VARIABLE_KEYWORDS ==
  {<<"v", "a", "r", "i", "a", "b", "l", "e">>,
   <<"v", "a", "r", "i", "a", "b", "l", "e", "s">>, <<"v", "a", "r">>,
   <<"v", "a", "r", "s">>, <<"f", "i", "e", "l", "d">>,
   <<"f", "i", "e", "l", "d", "s">>, <<"p", "r", "o", "p", "e", "r", "t", "y">>,
   <<"p", "r", "o", "p", "e", "r", "t", "i", "e", "s">>,
   <<"c", "o", "n", "s", "t", "a", "n", "t">>,
   <<"c", "o", "n", "s", "t", "a", "n", "t", "s">>, <<"c", "o", "n", "s", "t">>}

ACTION_KEYWORDS ==
  {<<"h", "a", "n", "d", "l", "e">>, <<"h", "a", "n", "d", "l", "e", "s">>,
   <<"h", "a", "n", "d", "l", "i", "n", "g">>, <<"p", "r", "o", "c", "e", "s", "s">>,
   <<"p", "r", "o", "c", "e", "s", "s", "e", "s">>,
   <<"p", "r", "o", "c", "e", "s", "s", "i", "n", "g">>,
   <<"m", "a", "n", "a", "g", "e">>, <<"m", "a", "n", "a", "g", "e", "s">>,
   <<"m", "a", "n", "a", "g", "i", "n", "g">>, <<"d", "e", "a", "l">>,
   <<"d", "e", "a", "l", "s">>, <<"d", "e", "a", "l", "i", "n", "g">>,
   <<"s", "e", "n", "d">>, <<"s", "e", "n", "d", "s">>,
   <<"s", "e", "n", "d", "i", "n", "g">>, <<"r", "e", "c", "e", "i", "v", "e">>,
   <<"r", "e", "c", "e", "i", "v", "e", "s">>,
   <<"r", "e", "c", "e", "i", "v", "i", "n", "g">>, <<"c", "r", "e", "a", "t", "e">>,
   <<"c", "r", "e", "a", "t", "e", "s">>, <<"c", "r", "e", "a", "t", "i", "n", "g">>,
   <<"d", "e", "l", "e", "t", "e">>, <<"d", "e", "l", "e", "t", "e", "s">>,
   <<"d", "e", "l", "e", "t", "i", "n", "g">>, <<"u", "p", "d", "a", "t", "e">>,
   <<"u", "p", "d", "a", "t", "e", "s">>, <<"u", "p", "d", "a", "t", "i", "n", "g">>,
   <<"g", "e", "t">>, <<"g", "e", "t", "s">>, <<"g", "e", "t", "t", "i", "n", "g">>,
   <<"s", "e", "t">>, <<"s", "e", "t", "s">>, <<"s", "e", "t", "t", "i", "n", "g">>,
   <<"v", "a", "l", "i", "d", "a", "t", "e">>,
   <<"v", "a", "l", "i", "d", "a", "t", "e", "s">>,
   <<"v", "a", "l", "i", "d", "a", "t", "i", "n", "g">>,
   <<"a", "u", "t", "h", "e", "n", "t", "i", "c", "a", "t", "e">>,
   <<"a", "u", "t", "h", "e", "n", "t", "i", "c", "a", "t", "e", "s">>,
   <<"a", "u", "t", "h", "e", "n", "t", "i", "c", "a", "t", "i", "n", "g">>,
   <<"a", "u", "t", "h", "o", "r", "i", "z", "e">>,
   <<"a", "u", "t", "h", "o", "r", "i", "z", "e", "s">>,
   <<"a", "u", "t", "h", "o", "r", "i", "z", "i", "n", "g">>,
   <<"c", "o", "n", "n", "e", "c", "t">>, <<"c", "o", "n", "n", "e", "c", "t", "s">>,
   <<"c", "o", "n", "n", "e", "c", "t", "i", "n", "g">>, <<"p", "a", "r", "s", "e">>,
   <<"p", "a", "r", "s", "e", "s">>, <<"p", "a", "r", "s", "i", "n", "g">>,
   <<"f", "o", "r", "m", "a", "t">>, <<"f", "o", "r", "m", "a", "t", "s">>,
   <<"f", "o", "r", "m", "a", "t", "t", "i", "n", "g">>,
   <<"c", "a", "l", "c", "u", "l", "a", "t", "e">>,
   <<"c", "a", "l", "c", "u", "l", "a", "t", "e", "s">>,
   <<"c", "a", "l", "c", "u", "l", "a", "t", "i", "n", "g">>,
   <<"c", "o", "m", "p", "u", "t", "e">>, <<"c", "o", "m", "p", "u", "t", "e", "s">>,
   <<"c", "o", "m", "p", "u", "t", "i", "n", "g">>, <<"r", "e", "n", "d", "e", "r">>,
   <<"r", "e", "n", "d", "e", "r", "s">>,
   <<"r", "e", "n", "d", "e", "r", "i", "n", "g">>,
   <<"d", "i", "s", "p", "l", "a", "y">>, <<"d", "i", "s", "p", "l", "a", "y", "s">>,
   <<"d", "i", "s", "p", "l", "a", "y", "i", "n", "g">>, <<"s", "h", "o", "w">>,
   <<"s", "h", "o", "w", "s">>, <<"s", "h", "o", "w", "i", "n", "g">>}

DOMAIN_KEYWORDS ==
  {<<"d", "a", "t", "a", "b", "a", "s", "e">>, <<"d", "b">>, <<"s", "q", "l">>,
   <<"q", "u", "e", "r", "y">>, <<"q", "u", "e", "r", "i", "e", "s">>,
   <<"t", "a", "b", "l", "e">>, <<"t", "a", "b", "l", "e", "s">>,
   <<"a", "u", "t", "h", "e", "n", "t", "i", "c", "a", "t", "i", "o", "n">>,
   <<"a", "u", "t", "h">>, <<"l", "o", "g", "i", "n">>,
   <<"l", "o", "g", "o", "u", "t">>, <<"p", "a", "s", "s", "w", "o", "r", "d">>,
   <<"t", "o", "k", "e", "n">>, <<"u", "s", "e", "r">>, <<"u", "s", "e", "r", "s">>,
   <<"s", "e", "s", "s", "i", "o", "n">>, <<"s", "e", "s", "s", "i", "o", "n", "s">>,
   <<"p", "e", "r", "m", "i", "s", "s", "i", "o", "n">>,
   <<"p", "e", "r", "m", "i", "s", "s", "i", "o", "n", "s">>,
   <<"e", "m", "a", "i", "l">>, <<"m", "a", "i", "l">>,
   <<"m", "e", "s", "s", "a", "g", "e">>, <<"m", "e", "s", "s", "a", "g", "e", "s">>,
   <<"n", "o", "t", "i", "f", "i", "c", "a", "t", "i", "o", "n">>,
   <<"n", "o", "t", "i", "f", "i", "c", "a", "t", "i", "o", "n", "s">>,
   <<"f", "i", "l", "e">>, <<"f", "i", "l", "e", "s">>,
   <<"u", "p", "l", "o", "a", "d">>, <<"d", "o", "w", "n", "l", "o", "a", "d">>,
   <<"s", "t", "o", "r", "a", "g", "e">>, <<"c", "a", "c", "h", "e">>,
   <<"c", "a", "c", "h", "i", "n", "g">>, <<"a", "p", "i">>,
   <<"e", "n", "d", "p", "o", "i", "n", "t">>,
   <<"e", "n", "d", "p", "o", "i", "n", "t", "s">>,
   <<"r", "e", "q", "u", "e", "s", "t">>, <<"r", "e", "q", "u", "e", "s", "t", "s">>,
   <<"r", "e", "s", "p", "o", "n", "s", "e">>,
   <<"r", "e", "s", "p", "o", "n", "s", "e", "s">>, <<"h", "t", "t", "p">>,
   <<"h", "t", "t", "p", "s">>, <<"s", "e", "r", "v", "e", "r">>,
   <<"c", "l", "i", "e", "n", "t">>, <<"n", "e", "t", "w", "o", "r", "k">>,
   <<"v", "a", "l", "i", "d", "a", "t", "i", "o", "n">>,
   <<"v", "a", "l", "i", "d", "a", "t", "o", "r">>, <<"e", "r", "r", "o", "r">>,
   <<"e", "r", "r", "o", "r", "s">>, <<"e", "x", "c", "e", "p", "t", "i", "o", "n">>,
   <<"e", "x", "c", "e", "p", "t", "i", "o", "n", "s">>,
   <<"c", "o", "n", "f", "i", "g">>,
   <<"c", "o", "n", "f", "i", "g", "u", "r", "a", "t", "i", "o", "n">>,
   <<"s", "e", "t", "t", "i", "n", "g", "s">>,
   <<"p", "r", "e", "f", "e", "r", "e", "n", "c", "e", "s">>,
   <<"o", "p", "t", "i", "o", "n", "s">>, <<"l", "o", "g">>, <<"l", "o", "g", "s">>,
   <<"l", "o", "g", "g", "i", "n", "g">>, <<"d", "e", "b", "u", "g">>,
   <<"d", "e", "b", "u", "g", "g", "i", "n", "g">>, <<"t", "e", "s", "t">>,
   <<"t", "e", "s", "t", "s">>, <<"t", "e", "s", "t", "i", "n", "g">>,
   <<"m", "o", "c", "k">>, <<"m", "o", "c", "k", "s">>,
   <<"m", "o", "c", "k", "i", "n", "g">>, <<"u", "t", "i", "l">>,
   <<"u", "t", "i", "l", "s">>, <<"u", "t", "i", "l", "i", "t", "y">>,
   <<"h", "e", "l", "p", "e", "r">>, <<"h", "e", "l", "p", "e", "r", "s">>,
   <<"s", "e", "r", "v", "i", "c", "e">>, <<"s", "e", "r", "v", "i", "c", "e", "s">>,
   <<"c", "o", "n", "t", "r", "o", "l", "l", "e", "r">>,
   <<"c", "o", "n", "t", "r", "o", "l", "l", "e", "r", "s">>,
   <<"m", "o", "d", "e", "l">>, <<"m", "o", "d", "e", "l", "s">>,
   <<"v", "i", "e", "w">>, <<"v", "i", "e", "w", "s">>,
   <<"c", "o", "m", "p", "o", "n", "e", "n", "t">>,
   <<"c", "o", "m", "p", "o", "n", "e", "n", "t", "s">>}

stopWords ==
  {<<"t", "h", "a", "t">>, <<"w", "i", "t", "h">>, <<"f", "o", "r">>,
   <<"a", "n", "d">>, <<"o", "r">>, <<"i", "n">>, <<"o", "n">>, <<"a", "t">>,
   <<"t", "o">>, <<"f", "r", "o", "m">>, <<"t", "h", "e">>, <<"a">>, <<"a", "n">>,
   <<"i", "s">>, <<"a", "r", "e">>, <<"w", "a", "s">>, <<"w", "e", "r", "e">>,
   <<"b", "e">>, <<"b", "e", "e", "n">>, <<"b", "e", "i", "n", "g">>,
   <<"h", "a", "v", "e">>, <<"h", "a", "s">>, <<"h", "a", "d">>, <<"d", "o">>,
   <<"d", "o", "e", "s">>, <<"d", "i", "d">>, <<"w", "i", "l", "l">>,
   <<"w", "o", "u", "l", "d">>, <<"c", "o", "u", "l", "d">>,
   <<"s", "h", "o", "u", "l", "d">>, <<"m", "a", "y">>, <<"m", "i", "g", "h", "t">>,
   <<"m", "u", "s", "t">>, <<"c", "a", "n">>, <<"a", "l", "l">>, <<"a", "n", "y">>,
   <<"s", "o", "m", "e">>, <<"t", "h", "i", "s">>, <<"t", "h", "e", "s", "e">>,
   <<"t", "h", "o", "s", "e">>, <<"m", "y">>, <<"y", "o", "u", "r">>,
   <<"h", "i", "s">>, <<"h", "e", "r">>, <<"i", "t", "s">>, <<"o", "u", "r">>,
   <<"t", "h", "e", "i", "r">>}

isStopWord(word) == word \in stopWords

\* the characters \s of a regular expression and trim treat as white space
IsWhiteSpace(c) == c \in {" ", "\t", "\n"}

\* String.prototype.trim
trim(s) ==
  LET inked == {i \in 1..Len(s) : ~IsWhiteSpace(s[i])}
  IN IF inked = {} THEN <<>>
     ELSE SubSeq(s, CHOOSE i \in inked : \A j \in inked : i <= j,
                    CHOOSE i \in inked : \A j \in inked : j <= i)

normalizeQuery(query) == trim(toLowerCase(query))

\* query.split(/\s+/) from position i on, where a piece starts: every run of
\* white space separates two pieces, also an empty piece at either end
RECURSIVE splitWhiteSpace(_, _)
splitWhiteSpace(s, i) ==
  LET spaces == {j \in i..Len(s) : IsWhiteSpace(s[j])}
  IN IF spaces = {} THEN <<SubSeq(s, i, Len(s))>>
     ELSE LET first == CHOOSE j \in spaces : \A k \in spaces : j <= k
              after == {j \in (first + 1)..Len(s) : ~IsWhiteSpace(s[j])}
              next == IF after = {} THEN Len(s) + 1
                      ELSE CHOOSE j \in after : \A k \in after : j <= k
          IN <<SubSeq(s, i, first - 1)>> \o splitWhiteSpace(s, next)

tokenize(query) ==
  SelectSeq(splitWhiteSpace(query, 1), LAMBDA word : Len(word) > 0)

Interface == <<"i", "n", "t", "e", "r", "f", "a", "c", "e">>
Type == <<"t", "y", "p", "e">>

\* determineIntent with the interface and type tests before the category tests
determineIntent_literalFirst(words) ==
  LET hasFunction == \E word \in SeqRange(words) : word \in FUNCTION_KEYWORDS
      hasClass == \E word \in SeqRange(words) : word \in CLASS_KEYWORDS
      hasVariable == \E word \in SeqRange(words) : word \in VARIABLE_KEYWORDS
  IN IF \E word \in SeqRange(words) : word = Interface \/ word = Append(Interface, "s")
     THEN "find_interfaces"
     ELSE IF \E word \in SeqRange(words) : word = Type \/ word = Append(Type, "s")
     THEN "find_types"
     ELSE IF hasFunction /\ ~hasClass /\ ~hasVariable THEN "find_functions"
     ELSE IF hasClass /\ ~hasFunction /\ ~hasVariable THEN "find_classes"
     ELSE IF hasVariable /\ ~hasFunction /\ ~hasClass THEN "find_variables"
     ELSE "find_all"

determineIntent(words) ==
  LET hasFunction == \E word \in SeqRange(words) : word \in FUNCTION_KEYWORDS
      hasClass == \E word \in SeqRange(words) : word \in CLASS_KEYWORDS
      hasVariable == \E word \in SeqRange(words) : word \in VARIABLE_KEYWORDS
  IN IF hasFunction /\ ~hasClass /\ ~hasVariable THEN "find_functions"
     ELSE IF hasClass /\ ~hasFunction /\ ~hasVariable THEN "find_classes"
     ELSE IF hasVariable /\ ~hasFunction /\ ~hasClass THEN "find_variables"
     ELSE IF \E word \in SeqRange(words) : word = Interface \/ word = Append(Interface, "s")
     THEN "find_interfaces"
     ELSE IF \E word \in SeqRange(words) : word = Type \/ word = Append(Type, "s")
     THEN "find_types"
     ELSE "find_all"

extractElementTypes(intent) ==
  CASE intent = "find_functions" -> <<"function", "method">>
    [] intent = "find_classes" -> <<"class">>
    [] intent = "find_variables" -> <<"variable", "property">>
    [] intent = "find_interfaces" -> <<"interface">>
    [] intent = "find_types" -> <<"type", "interface">>
    [] OTHER -> <<"function", "class", "method", "variable", "property",
                  "interface", "type">>

\* what the loop of extractKeywords pushes for the words from position i on
RECURSIVE pushKeywords(_, _)
pushKeywords(words, i) ==
  IF i > Len(words) THEN <<>>
  ELSE LET word == words[i]
       IN (IF word \in ACTION_KEYWORDS THEN <<word>> ELSE <<>>)
          \o (IF word \in DOMAIN_KEYWORDS THEN <<word>> ELSE <<>>)
          \o (IF /\ word \notin FUNCTION_KEYWORDS
                 /\ word \notin CLASS_KEYWORDS
                 /\ word \notin VARIABLE_KEYWORDS
                 /\ ~isStopWord(word)
              THEN <<word>> ELSE <<>>)
          \o pushKeywords(words, i + 1)

\* extractKeywords returning the list as pushed, duplicates included
extractKeywords_noSet(words) == pushKeywords(words, 1)

extractKeywords(words) == Unique(pushKeywords(words, 1))

parse(queryText) ==
  LET normalizedQuery == normalizeQuery(queryText)
      words == tokenize(normalizedQuery)
      intent == determineIntent(words)
  IN [text |-> queryText,
      intent |-> intent,
      keywords |-> extractKeywords(words),
      elementTypes |-> extractElementTypes(intent)]

(***************************************************************************)
(* State.                                                                  *)
(***************************************************************************)
VARIABLES
  fs,        \* the changing files on disk: Paths -> FileStates
  rootOk,    \* the workspace root exists and can be read
  fsOps,     \* how many changes other processes have made to the disk
  config,    \* the IndexerConfig the indexer was constructed with
  index,     \* this.index: [files, elements, order]
  watcher,   \* this.fileWatcher and the host's live watchers
  events,    \* watcher events raised and not yet delivered
  ws,        \* the indexWorkspace call: where it is and its locals
  tasks,     \* indexFile calls of listeners and of the host, suspended at their await
  runs,      \* how many indexWorkspace calls were made
  hostCalls, \* how many calls the host made to indexFile and removeFile
  snap,      \* the list the host got from getAllElements, and how many it asked for
  engine,    \* the SearchEngine: the array this.elements refers to, and whether
             \* it is the very array the host holds
  answer,    \* the last search: its query, its options and what it returned
  call,      \* a parser or engine function called on its own: input and output;
             \* in LifecycleSpec, whether dispose() has been called
  last,      \* history: the index operation the last step performed
  lin        \* history: two operations on one path that overlap

diskVars == <<fs, rootOk, fsOps>>
searchVars == <<snap, engine, answer, call>>

vars ==
  <<fs, rootOk, fsOps, config, index, watcher, events, ws, tasks, runs, hostCalls,
    snap, engine, answer, call, last, lin>>

AllFiles == Paths \cup {FileC, FileD}

Other == [op |-> "other", ev |-> "none"]

EmptyIndex ==
  [files |-> [p \in AllFiles |-> NoRec],
   elements |-> [p \in AllFiles |-> <<>>],
   order |-> <<>>]

WsIdle ==
  [pc |-> "idle", files |-> <<>>, i |-> 0, fileIndex |-> NoRec,
   rootFailed |-> FALSE, result |-> "none"]

NoSnapshot == [held |-> FALSE, list |-> <<>>, n |-> 0]
NoAnswer == [asked |-> FALSE]
NoCall == [fn |-> "none"]

InitialFiles ==
  {Absent} \cup {c \in Contents : c.mtime = 1 /\ c.var = 0 /\ c.len <= maxFileSize}

Configs ==
  [maxFileSize : {maxFileSize},
   excludePatterns : {ConfigExcludePatterns},
   watchFiles : BOOLEAN]

(***************************************************************************)
(* History of overlapping operations.  When an indexFile call of the       *)
(* indexWorkspace pass or of a watcher listener suspends on a path no      *)
(* other call is suspended on, lin records the entry e0 the path had and   *)
(* what the call read; when the other party then acts on the same path     *)
(* before the first has stored, lin records that too, and which of them    *)
(* have finished.  Anything else touching the path ends the record.        *)
(***************************************************************************)
LinNone == [on |-> FALSE]
NoView == [op |-> "none"]

Closed(l) == l.on /\ l.firstDone /\ l.second.op # "none" /\ l.secondDone

InFlight(p) ==
  \/ ws.pc = "await" /\ ws.fileIndex.filePath = p
  \/ \E i \in 1..Len(tasks) : tasks[i].fileIndex.filePath = p

CallView(who, r) == [op |-> "index", who |-> who, s1 |-> r.s1, s2 |-> r.s2, s3 |-> r.s3]
RemoveView(who) == [op |-> "remove", who |-> who]

LinAfter(l, p, who, phase, view, parsed) ==
  IF l.on /\ ~Closed(l)
  THEN IF p # l.path THEN l
       ELSE IF phase = "store" /\ who = l.first.who /\ ~l.firstDone
       THEN (IF l.second.op = "none" THEN LinNone ELSE [l EXCEPT !.firstDone = TRUE])
       ELSE IF /\ phase = "store" /\ l.second.op # "none"
               /\ who = l.second.who /\ ~l.secondDone
       THEN [l EXCEPT !.secondDone = TRUE]
       ELSE IF /\ phase \in {"call", "remove"} /\ l.second.op = "none"
               /\ who \in {"ws", "watcher"} /\ who # l.first.who
       THEN [l EXCEPT !.second = view, !.secondDone = ~parsed]
       ELSE LinNone
  ELSE IF phase = "call" /\ parsed /\ who \in {"ws", "watcher"} /\ ~InFlight(p)
       THEN [on |-> TRUE, path |-> p, e0 |-> index.files[p], first |-> view,
             second |-> NoView, firstDone |-> FALSE, secondDone |-> FALSE]
       ELSE IF l.on /\ l.path = p THEN LinNone
       ELSE l

Init ==
  /\ fs \in [Paths -> InitialFiles]
  /\ rootOk \in BOOLEAN
  /\ fsOps = 0
  /\ config \in Configs
  /\ index = EmptyIndex
  /\ watcher = [fileWatcher |-> "undefined", active |-> 0]
  /\ events = {}
  /\ ws = WsIdle
  /\ tasks = <<>>
  /\ runs = 0
  /\ hostCalls = 0
  /\ snap = NoSnapshot
  /\ engine = [elements |-> <<>>, shares |-> FALSE]
  /\ answer = NoAnswer
  /\ call = NoCall
  /\ last = Other
  /\ lin = LinNone

(***************************************************************************)
(* Other processes writing to the disk.                                    *)
(***************************************************************************)
Raise(evs) == IF watcher.active > 0 THEN events \cup evs ELSE events

\* the kind of the event a listener was called with ("none": not a listener)
EvOf(handled) == IF handled = {} THEN "none" ELSE (CHOOSE e \in handled : TRUE)[1]

FsStep(p) ==
  /\ fsOps < MaxFsOps
  /\ \E c \in FsChanges(fs[p]) :
       /\ fs' = [fs EXCEPT ![p] = c.to]
       /\ events' = Raise(IF c.ev = "none" THEN {} ELSE {<<c.ev, p>>})
  /\ fsOps' = fsOps + 1
  /\ last' = Other
  /\ UNCHANGED <<rootOk, config, index, watcher, ws, tasks, runs, hostCalls, lin>>
  /\ UNCHANGED searchVars

(***************************************************************************)
(* The three reads of one indexFile call (statSync, calculateFileHash,     *)
(* parseFile's readFileSync), with at most MaxMidWrites writes of another  *)
(* process landing between them.                                           *)
(***************************************************************************)
EventsOf(cs) == {<<c.ev, c.p>> : c \in {x \in cs : x.ev # "none"}}

Reads(p) ==
  LET s == FileAt(fs, p)
      room == IF p \in Paths THEN MaxFsOps - fsOps ELSE 0
      quiet == {[s1 |-> s, s2 |-> s, s3 |-> s, n |-> 0, evs |-> {}]}
      early == {[s1 |-> s, s2 |-> c.to, s3 |-> c.to, n |-> 1,
                 evs |-> EventsOf({[ev |-> c.ev, p |-> p]})] : c \in FsChanges(s)}
      late == {[s1 |-> s, s2 |-> s, s3 |-> c.to, n |-> 1,
                evs |-> EventsOf({[ev |-> c.ev, p |-> p]})] : c \in FsChanges(s)}
      both == UNION {{[s1 |-> s, s2 |-> c.to, s3 |-> d.to, n |-> 2,
                       evs |-> EventsOf({[ev |-> c.ev, p |-> p],
                                         [ev |-> d.ev, p |-> p]})] :
                        d \in FsChanges(c.to)} : c \in FsChanges(s)}
  IN quiet \cup (IF room >= 1 /\ MaxMidWrites >= 1 THEN early \cup late ELSE {})
           \cup (IF room >= 2 /\ MaxMidWrites >= 2 THEN both ELSE {})

\* the part of an indexFile call that every caller shares: the disk as the call
\* leaves it, and the histories
IndexFileEffect(p, who, r, out, handled) ==
  /\ fs' = IF p \in Paths THEN [fs EXCEPT ![p] = r.s3] ELSE fs
  /\ fsOps' = fsOps + r.n
  /\ rootOk' = rootOk
  /\ events' = (events \ handled) \cup (IF watcher.active > 0 THEN r.evs ELSE {})
  /\ last' = [op |-> "indexFile", path |-> p, who |-> who, ev |-> EvOf(handled),
              kind |-> out.kind, threw |-> out.threw, quiet |-> r.n = 0]
  /\ lin' = LinAfter(lin, p, who, "call", CallView(who, r), out.kind = "parsed")

\* indexFile called by a watcher listener or by the host: runs to its await
CallIndexFile(p, who, handled) ==
  \E r \in Reads(p) :
    LET out == indexFileRun(p, r.s1, r.s2, r.s3, index.files[p])
    IN /\ IndexFileEffect(p, who, r, out, handled)
       /\ IF out.kind = "parsed"
          THEN /\ Len(tasks) < MaxTasks
               /\ tasks' = Append(tasks, [who |-> who, fileIndex |-> out.fileIndex])
          ELSE tasks' = tasks
       /\ UNCHANGED <<config, index, watcher, ws, runs>>
       /\ UNCHANGED searchVars

\* the continuation of the oldest suspended indexFile call (lines 55-64)
TaskStore ==
  /\ tasks # <<>>
  /\ index' = storeFileIndex(index, Head(tasks).fileIndex)
  /\ tasks' = Tail(tasks)
  /\ last' = [op |-> "store", path |-> Head(tasks).fileIndex.filePath,
              who |-> Head(tasks).who, ev |-> "none"]
  /\ lin' = LinAfter(lin, Head(tasks).fileIndex.filePath, Head(tasks).who,
                     "store", NoView, FALSE)
  /\ UNCHANGED <<config, watcher, events, ws, runs, hostCalls>>
  /\ UNCHANGED diskVars
  /\ UNCHANGED searchVars

CallRemoveFile(p, who, handled) ==
  /\ index' = removeFile(index, p)
  /\ events' = events \ handled
  /\ last' = [op |-> "removeFile", path |-> p, who |-> who, ev |-> EvOf(handled),
              had |-> index.files[p] # NoRec]
  /\ lin' = LinAfter(lin, p, who, "remove", RemoveView(who), FALSE)
  /\ UNCHANGED <<config, watcher, ws, tasks, runs>>
  /\ UNCHANGED diskVars
  /\ UNCHANGED searchVars

\* the host delivers one event to the live watcher's listener
HandleEvent ==
  /\ watcher.active > 0
  /\ UNCHANGED hostCalls
  /\ \E e \in events :
       IF watcherHandler(e[1]) = "indexFile"
       THEN CallIndexFile(e[2], "watcher", {e})
       ELSE CallRemoveFile(e[2], "watcher", {e})

HostIndexFile(p) ==
  /\ hostCalls < MaxHostCalls
  /\ hostCalls' = hostCalls + 1
  /\ CallIndexFile(p, "host", {})

HostRemoveFile(p) ==
  /\ hostCalls < MaxHostCalls
  /\ hostCalls' = hostCalls + 1
  /\ CallRemoveFile(p, "host", {})

HostDispose ==
  /\ watcher.fileWatcher = "active"
  /\ watcher' = dispose(watcher)
  /\ events' = IF dispose(watcher).active = 0 THEN {} ELSE events
  /\ last' = Other
  /\ UNCHANGED <<config, index, ws, tasks, runs, hostCalls, lin>>
  /\ UNCHANGED diskVars
  /\ UNCHANGED searchVars

(***************************************************************************)
(* indexWorkspace.                                                         *)
(***************************************************************************)
IndexWorkspaceCall ==
  /\ ws.pc \in {"idle", "done"}
  /\ runs < MaxRuns
  /\ runs' = runs + 1
  /\ ws' = [pc |-> "loop", files |-> findCodeFiles(config, fs, rootOk), i |-> 1,
            fileIndex |-> NoRec, rootFailed |-> ~rootOk, result |-> "pending"]
  /\ last' = Other
  /\ UNCHANGED <<config, index, watcher, events, tasks, hostCalls, lin>>
  /\ UNCHANGED diskVars
  /\ UNCHANGED searchVars

\* `await this.indexFile(filePath)` up to indexFile's own await
WsIndexFile ==
  /\ ws.pc = "loop"
  /\ ws.i <= Len(ws.files)
  /\ \E r \in Reads(ws.files[ws.i]) :
       LET p == ws.files[ws.i]
           out == indexFileRun(p, r.s1, r.s2, r.s3, index.files[p])
       IN /\ IndexFileEffect(p, "ws", r, out, {})
          /\ ws' = IF out.threw
                   THEN [ws EXCEPT !.pc = "done", !.result = "rejected"]
                   ELSE IF out.kind = "parsed"
                   THEN [ws EXCEPT !.pc = "await", !.fileIndex = out.fileIndex]
                   ELSE [ws EXCEPT !.i = ws.i + 1]
  /\ UNCHANGED <<config, index, watcher, tasks, runs, hostCalls>>
  /\ UNCHANGED searchVars

WsStore ==
  /\ ws.pc = "await"
  /\ index' = storeFileIndex(index, ws.fileIndex)
  /\ ws' = [ws EXCEPT !.pc = "loop", !.i = ws.i + 1, !.fileIndex = NoRec]
  /\ last' = [op |-> "store", path |-> ws.fileIndex.filePath, who |-> "ws",
              ev |-> "none"]
  /\ lin' = LinAfter(lin, ws.fileIndex.filePath, "ws", "store", NoView, FALSE)
  /\ UNCHANGED <<config, watcher, events, tasks, runs, hostCalls>>
  /\ UNCHANGED diskVars
  /\ UNCHANGED searchVars

\* lines 30-34: the watcher is set up when the loop is over
WsFinish ==
  /\ ws.pc = "loop"
  /\ ws.i > Len(ws.files)
  /\ watcher' = IF config.watchFiles THEN setupFileWatcher(watcher) ELSE watcher
  /\ ws' = [ws EXCEPT !.pc = "done", !.files = <<>>, !.i = 0, !.result = "resolved"]
  /\ last' = Other
  /\ UNCHANGED <<config, index, events, tasks, runs, hostCalls, lin>>
  /\ UNCHANGED diskVars
  /\ UNCHANGED searchVars

(***************************************************************************)
(* The host searching (SearchCommand.execute): getAllElements, then        *)
(* updateElements with the list, then search.                              *)
(***************************************************************************)
\* the searches the host makes: a query with the options SearchCommand passes,
\* and one with a kind filter, a file pattern and a limit of one result
Searches ==
  {[query |-> [keywords |-> << <<"a">> >>, intent |-> "find_all",
               elementTypes |-> <<>>],
    options |-> [maxResults |-> 50, threshold |-> [num |-> 1, den |-> 10],
                 caseSensitive |-> FALSE, languages |-> <<>>,
                 filePatterns |-> <<>>]],
   [query |-> [keywords |-> << <<"b">>, <<"a">>, <<"b">> >>,
               intent |-> "find_functions",
               elementTypes |-> <<"function", "method">>],
    options |-> [maxResults |-> 1, threshold |-> [num |-> 2, den |-> 10],
                 caseSensitive |-> TRUE, languages |-> <<>>,
                 filePatterns |-> << <<"/", "w", "/", "*", ".", "t", "s">> >>]]}

HostGetAllElements ==
  /\ snap.n < MaxSnapshots
  /\ snap' = [held |-> TRUE, list |-> getAllElements(index), n |-> snap.n + 1]
  /\ engine' = [engine EXCEPT !.shares = FALSE]
  /\ last' = [op |-> "getAllElements", ev |-> "none"]
  /\ UNCHANGED <<config, index, watcher, events, ws, tasks, runs, hostCalls, lin, answer, call>>
  /\ UNCHANGED diskVars

HostUpdateElements ==
  /\ snap.held
  /\ ~engine.shares
  /\ engine' = [elements |-> snap.list, shares |-> TRUE]
  /\ last' = [op |-> "updateElements", ev |-> "none"]
  /\ UNCHANGED <<config, index, watcher, events, ws, tasks, runs, hostCalls, lin, snap, answer, call>>
  /\ UNCHANGED diskVars

HostSearch ==
  /\ engine.shares
  /\ \E s \in Searches :
       LET out == search(engine.elements, s.query, s.options)
       IN /\ answer' = [asked |-> TRUE, query |-> s.query, options |-> s.options,
                        results |-> out.results]
          /\ engine' = [engine EXCEPT !.elements = out.elements]
          /\ snap' = [snap EXCEPT !.list = out.elements]
  /\ last' = [op |-> "search", ev |-> "none"]
  /\ UNCHANGED <<config, index, watcher, events, ws, tasks, runs, hostCalls, lin, call>>
  /\ UNCHANGED diskVars

Next ==
  \/ \E p \in Paths : FsStep(p)
  \/ HandleEvent
  \/ \E p \in Paths : HostIndexFile(p)
  \/ \E p \in Paths : HostRemoveFile(p)
  \/ HostDispose
  \/ TaskStore
  \/ IndexWorkspaceCall
  \/ WsIndexFile
  \/ WsStore
  \/ WsFinish

Spec == Init /\ [][Next]_vars

(***************************************************************************)
(* The host searching while the index changes: no watcher, one workspace.  *)
(***************************************************************************)
InitSearch ==
  /\ Init
  /\ rootOk
  /\ ~config.watchFiles
  /\ fs = [p \in Paths |-> InitialFile]

NextSearch ==
  \/ \E p \in Paths : FsStep(p)
  \/ \E p \in Paths : HostIndexFile(p)
  \/ \E p \in Paths : HostRemoveFile(p)
  \/ TaskStore
  \/ IndexWorkspaceCall
  \/ WsIndexFile
  \/ WsStore
  \/ WsFinish
  \/ HostGetAllElements
  \/ HostUpdateElements
  \/ HostSearch

SearchSpec == InitSearch /\ [][NextSearch]_vars

(***************************************************************************)
(* Passes of indexWorkspace over a disk that is quiet while a pass runs:   *)
(* files are written and deleted between the passes only, every file can   *)
(* be read, there is no watcher and the host makes no other call.          *)
(***************************************************************************)
InitPass ==
  /\ Init
  /\ ~config.watchFiles

\* another process writes or deletes a file while no pass is running
FsStepBetweenPasses(p) ==
  /\ ws.pc \in {"idle", "done"}
  /\ FsStep(p)
  /\ fs'[p] \in Contents \cup {Absent}

\* `await this.indexFile(filePath)` with no write landing between its reads
WsIndexFileQuiet ==
  /\ WsIndexFile
  /\ fsOps' = fsOps

NextPass ==
  \/ \E p \in Paths : FsStepBetweenPasses(p)
  \/ IndexWorkspaceCall
  \/ WsIndexFileQuiet
  \/ WsStore
  \/ WsFinish

PassSpec == InitPass /\ [][NextPass]_vars

(***************************************************************************)
(* The life of the watcher: indexWorkspace calls with watchFiles set, the  *)
(* host calling dispose() at any moment, also while a pass is suspended,   *)
(* and the disk changing.  call remembers that dispose() was called.       *)
(***************************************************************************)
InitLifecycle ==
  /\ fs \in [Paths -> InitialFiles]
  /\ rootOk = TRUE
  /\ fsOps = 0
  /\ config = [maxFileSize |-> maxFileSize, excludePatterns |-> ConfigExcludePatterns,
               watchFiles |-> TRUE]
  /\ index = EmptyIndex
  /\ watcher = [fileWatcher |-> "undefined", active |-> 0]
  /\ events = {}
  /\ ws = WsIdle
  /\ tasks = <<>>
  /\ runs = 0
  /\ hostCalls = 0
  /\ snap = NoSnapshot
  /\ engine = [elements |-> <<>>, shares |-> FALSE]
  /\ answer = NoAnswer
  /\ call = [fn |-> "dispose", done |-> FALSE]
  /\ last = Other
  /\ lin = LinNone

\* dispose(): lines 226-230, whatever this.fileWatcher is
Dispose ==
  /\ watcher' = dispose(watcher)
  /\ events' = IF dispose(watcher).active = 0 THEN {} ELSE events
  /\ call' = [call EXCEPT !.done = TRUE]
  /\ last' = Other
  /\ UNCHANGED <<config, index, ws, tasks, runs, hostCalls, lin, snap, engine, answer>>
  /\ UNCHANGED diskVars

NextLifecycle ==
  \/ \E p \in Paths : FsStep(p)
  \/ HandleEvent
  \/ Dispose
  \/ TaskStore
  \/ IndexWorkspaceCall
  \/ WsIndexFile
  \/ WsStore
  \/ WsFinish

LifecycleSpec == InitLifecycle /\ [][NextLifecycle]_vars

(***************************************************************************)
(* The ranking engine on its own: search called once on a list of          *)
(* declarations, a structured query and options, the index at rest.        *)
(***************************************************************************)
IndexerIdle ==
  /\ fs = [p \in Paths |-> InitialFile]
  /\ rootOk = TRUE
  /\ fsOps = 0
  /\ config = [maxFileSize |-> maxFileSize, excludePatterns |-> ConfigExcludePatterns,
               watchFiles |-> FALSE]
  /\ index = EmptyIndex
  /\ watcher = [fileWatcher |-> "undefined", active |-> 0]
  /\ events = {}
  /\ ws = WsIdle
  /\ tasks = <<>>
  /\ runs = 0
  /\ hostCalls = 0
  /\ snap = NoSnapshot
  /\ engine = [elements |-> <<>>, shares |-> FALSE]
  /\ answer = NoAnswer
  /\ last = Other
  /\ lin = LinNone

idleVars ==
  <<fs, rootOk, fsOps, config, index, watcher, events, ws, tasks, runs, hostCalls,
    snap, engine, answer, last, lin>>

\* declarations as parseFile leaves them in the index
Declarations ==
  << [name |-> <<"a", "b">>, type |-> "function",
      signature |-> <<"a", "b", "(", ")">>, description |-> <<>>, filePath |-> FileA],
     [name |-> <<"B">>, type |-> "class",
      signature |-> <<>>, description |-> <<"a">>, filePath |-> FileA],
     [name |-> <<"b">>, type |-> "function",
      signature |-> <<"b", "(", ")">>, description |-> <<"a">>, filePath |-> FileB],
     [name |-> <<"a">>, type |-> "variable",
      signature |-> <<>>, description |-> <<>>, filePath |-> FileB],
     [name |-> <<"b", "a">>, type |-> "method",
      signature |-> <<"b", "a", "(", ")">>, description |-> <<"b">>, filePath |-> FileA],
     [name |-> <<"c", "a", "c">>, type |-> "method",
      signature |-> <<"c", "a", "c", "(", "d", ")">>, description |-> <<>>,
      parameters |-> << [name |-> <<"d">>] >>, filePath |-> FileB] >>

ManyDeclarations == 51

\* the lists this.elements can refer to: up to MaxElements different
\* declarations in any order, and one list longer than the default maxResults
ElementLists ==
  {q \in UNION {[1..n -> SeqRange(Declarations)] : n \in 0..MaxElements} :
     \A i, j \in 1..Len(q) : i # j => q[i] # q[j]}
  \cup {[i \in 1..ManyDeclarations |-> Declarations[(i % Len(Declarations)) + 1]]}

AllElementTypes ==
  <<"function", "class", "method", "variable", "property", "interface", "type">>

RankQueries ==
  {[keywords |-> << <<"a">> >>, intent |-> "find_all", elementTypes |-> AllElementTypes],
   [keywords |-> << <<"b">> >>, intent |-> "find_functions",
    elementTypes |-> <<"function", "method">>],
   [keywords |-> << <<"a">> >>, intent |-> "find_functions", elementTypes |-> <<>>],
   [keywords |-> << <<"a", "b">> >>, intent |-> "find_functions",
    elementTypes |-> <<"function", "method">>],
   [keywords |-> << <<"b">>, <<"a">>, <<"b">> >>, intent |-> "find_all",
    elementTypes |-> AllElementTypes],
   [keywords |-> << <<"a">>, <<"b">>, <<"d">> >>, intent |-> "find_all",
    elementTypes |-> AllElementTypes],
   [keywords |-> << <<"a">>, <<"b">>, <<"d">>, <<"e">> >>, intent |-> "find_all",
    elementTypes |-> AllElementTypes],
   [keywords |-> <<>>, intent |-> "find_all", elementTypes |-> AllElementTypes]}

RankOptions ==
  {<<>>,
   [maxResults |-> 1, threshold |-> ZeroScore],
   [threshold |-> [num |-> 1, den |-> 20], caseSensitive |-> TRUE, maxResults |-> 2],
   [languages |-> <<LanguageTypeScript>>],
   [languages |-> <<LanguageJavaScript, LanguageTypeScript>>, threshold |-> ZeroScore],
   [filePatterns |-> << <<"/", "w", "/", "*", ".", "t", "s">> >>, threshold |-> ZeroScore],
   [threshold |-> ZeroScore, caseSensitive |-> FALSE]}

InitRank ==
  /\ IndexerIdle
  /\ call \in [fn : {"search"}, done : {FALSE}, elements : ElementLists,
               query : RankQueries, options : RankOptions,
               candidates : {<<>>}, scores : {<<>>}, results : {<<>>}]

\* engine.updateElements(elements) and engine.search(query, options);
\* candidates is the list the filters leave, scores is what calculateScore
\* gives each declaration of the list
RankSearch ==
  /\ call.fn = "search"
  /\ ~call.done
  /\ call' = [call EXCEPT
       !.done = TRUE,
       !.candidates = filterElements(call.elements, call.query, call.options),
       !.scores = [i \in 1..Len(call.elements) |->
                     calculateScore(call.elements[i], call.query,
                                    searchOptions(call.options).caseSensitive)],
       !.results = search(call.elements, call.query, call.options).results]
  /\ UNCHANGED idleVars

NextRank == RankSearch

RankSpec == InitRank /\ [][NextRank]_vars

(***************************************************************************)
(* The query parser on its own, and the search made with what it returns:  *)
(* parse(queryText), then search(parsedQuery, options) on a list.          *)
(***************************************************************************)
MaxWords == 3

QueryWords ==
  << <<"f", "u", "n", "c", "t", "i", "o", "n", "s">>,
     <<"M", "e", "t", "h", "o", "d">>,
     <<"c", "l", "a", "s", "s">>,
     <<"v", "a", "r">>,
     <<"i", "n", "t", "e", "r", "f", "a", "c", "e">>,
     <<"t", "y", "p", "e", "s">>,
     <<"t", "h", "a", "t">>,
     <<"s", "e", "n", "d">>,
     <<"E", "m", "a", "i", "l">>,
     <<"f", "o", "o">> >>

RECURSIVE joinWords(_)
joinWords(list) ==
  IF list = <<>> THEN <<>>
  ELSE IF Len(list) = 1 THEN list[1]
  ELSE list[1] \o <<" ">> \o joinWords(Tail(list))

\* what the user types: up to MaxWords words with one space between them,
\* blank texts, texts with more white space, and a longer sentence
QueryTexts ==
  {joinWords(list) : list \in UNION {[1..n -> SeqRange(QueryWords)] : n \in 0..MaxWords}}
  \cup {<<" ">>, <<" ", "\t", " ">>, <<"\n">>,
        <<" ", " ">> \o QueryWords[8] \o <<" ", "\t">> \o QueryWords[9] \o <<" ">>,
        joinWords(<<QueryWords[1], QueryWords[7], QueryWords[8], QueryWords[9]>>)}

MailDeclarations ==
  << [name |-> <<"s", "e", "n", "d", "E", "m", "a", "i", "l">>, type |-> "function",
      signature |-> <<"f", "u", "n", "c", "t", "i", "o", "n">> \o <<" ">> \o <<"s", "e", "n", "d", "E", "m", "a", "i", "l">> \o <<"(", ")">>,
      description |-> <<>>, filePath |-> FileA],
     [name |-> <<"E", "m", "a", "i", "l">>, type |-> "class",
      signature |-> <<>>, description |-> <<>>, filePath |-> FileB] >>

QueryLists == {<<>>, MailDeclarations}

QueryOptions == {<<>>, [threshold |-> ZeroScore]}

NoQuery == [text |-> <<>>, intent |-> "none", keywords |-> <<>>, elementTypes |-> <<>>]

InitQuery ==
  /\ IndexerIdle
  /\ call \in [fn : {"parse"}, pc : {"text"}, text : QueryTexts,
               elements : QueryLists, options : QueryOptions,
               query : {NoQuery}, scores : {<<>>}, results : {<<>>}]

\* const parsedQuery = this.queryParser.parse(query)
ParseQuery ==
  /\ call.fn = "parse"
  /\ call.pc = "text"
  /\ call' = [call EXCEPT !.pc = "parsed", !.query = parse(call.text)]
  /\ UNCHANGED idleVars

\* this.searchEngine.search(parsedQuery, options)
SearchParsed ==
  /\ call.fn = "parse"
  /\ call.pc = "parsed"
  /\ call' = [call EXCEPT
       !.pc = "searched",
       !.scores = [i \in 1..Len(call.elements) |->
                     calculateScore(call.elements[i], call.query,
                                    searchOptions(call.options).caseSensitive)],
       !.results = search(call.elements, call.query, call.options).results]
  /\ UNCHANGED idleVars

NextQuery ==
  \/ ParseQuery
  \/ SearchParsed

QuerySpec == InitQuery /\ [][NextQuery]_vars

(***************************************************************************)
(* The declaration parser on its own: parseFile called once on a file      *)
(* whose text the TypeScript parser turned into a syntax tree.             *)
(***************************************************************************)
MaxDiagnostics == 1

Node(kind, name, modifiers, children, start, end) ==
  [kind |-> kind, name |-> name, modifiers |-> modifiers, children |-> children,
   start |-> start, end |-> end]

\* the modifiers written before a class member, and before a declaration at
\* the top of a file
MemberModifiers ==
  {<<>>, <<"PrivateKeyword">>, <<"PublicKeyword">>, <<"PrivateKeyword", "StaticKeyword">>}

TopModifiers == {<<>>, <<"ExportKeyword">>, <<"PrivateKeyword">>}

\* a modifier as it is written in the text
KeywordText(kind) ==
  CASE kind = "PrivateKeyword" -> <<"p", "r", "i", "v", "a", "t", "e">>
    [] kind = "PublicKeyword" -> <<"p", "u", "b", "l", "i", "c">>
    [] kind = "StaticKeyword" -> <<"s", "t", "a", "t", "i", "c">>
    [] OTHER -> <<"e", "x", "p", "o", "r", "t">>

RECURSIVE ModifiersText(_)
ModifiersText(modifiers) ==
  IF modifiers = <<>> THEN <<>>
  ELSE KeywordText(Head(modifiers)) \o <<" ">> \o ModifiersText(Tail(modifiers))

FunctionText == <<"f", "u", "n", "c", "t", "i", "o", "n", " ", "f", "(", ")", "{", "}">>
ClassOpenText == <<"c", "l", "a", "s", "s", " ", "C", "{">>
MethodText == <<"m", "(", ")", "{", "}">>
PropertyText == <<"p", "=", "1">>

\* n closing braces that close nothing, each a syntax error
RECURSIVE StrayBraces(_)
StrayBraces(n) == IF n = 0 THEN <<>> ELSE <<" ", "}">> \o StrayBraces(n - 1)

\* how a file is laid out: what stands before the first declaration (nothing,
\* or a comment line) and what separates two declarations or members (a
\* space, a line feed, or a carriage return and a line feed)
Layouts ==
  {[lead |-> <<>>, sep |-> <<" ">>],
   [lead |-> <<"/", "/", "x", "\n">>, sep |-> <<"\n">>],
   [lead |-> <<>>, sep |-> <<"\r", "\n">>]}

\* ts.createSourceFile on the text of a file that declares a function f and a
\* class C with a method m and a property p, followed by d stray braces: the
\* text and the tree, every node with the offsets of its first and last token
createSourceFile(fileName, fm, cm, mm, pm, d, layout) ==
  LET function == ModifiersText(fm) \o FunctionText
      classOpen == ModifiersText(cm) \o ClassOpenText
      method == ModifiersText(mm) \o MethodText
      property == ModifiersText(pm) \o PropertyText
      fStart == Len(layout.lead)
      fEnd == fStart + Len(function)
      cStart == fEnd + Len(layout.sep)
      mStart == cStart + Len(classOpen) + Len(layout.sep)
      mEnd == mStart + Len(method)
      pStart == mEnd + Len(layout.sep)
      pEnd == pStart + Len(property)
      cEnd == pEnd + Len(layout.sep) + 1
      text == layout.lead \o function \o layout.sep \o classOpen \o layout.sep
                \o method \o layout.sep \o property \o layout.sep \o <<"}">>
                \o StrayBraces(d)
                \o (IF layout.sep = <<" ">> THEN <<>> ELSE layout.sep)
  IN [kind |-> "SourceFile", name |-> <<>>, modifiers |-> <<>>,
      fileName |-> fileName, text |-> text, parseDiagnostics |-> d,
      start |-> fStart, end |-> Len(text),
      children |->
        << Node("FunctionDeclaration", <<"f">>, fm, <<>>, fStart, fEnd),
           Node("ClassDeclaration", <<"C">>, cm,
                << Node("MethodDeclaration", <<"m">>, mm, <<>>, mStart, mEnd),
                   Node("PropertyDeclaration", <<"p">>, pm, <<>>, pStart, pEnd) >>,
                cStart, cEnd) >>]

\* the files parseFile is called on, with or without syntax errors
SourceFiles ==
  {createSourceFile(FileA, fm, cm, mm, pm, d, layout) :
     fm \in TopModifiers, cm \in TopModifiers,
     mm \in MemberModifiers, pm \in MemberModifiers, d \in 0..MaxDiagnostics,
     layout \in Layouts}

\* this.options after the constructor has merged the defaults in
ParserOptionSets == [includePrivate : BOOLEAN, maxDepth : {0, 1, 10}]

NoParsedFile == [filePath |-> <<>>, language |-> <<>>, elements |-> <<>>, errors |-> <<>>]

InitParser ==
  /\ IndexerIdle
  /\ call \in [fn : {"parseFile"}, done : {FALSE}, sourceFile : SourceFiles,
               options : ParserOptionSets, result : {NoParsedFile}]

\* await parser.parseFile(filePath)
ParseFile ==
  /\ call.fn = "parseFile"
  /\ ~call.done
  /\ call' = [call EXCEPT !.done = TRUE,
                          !.result = parseSourceFile(call.sourceFile, call.options)]
  /\ UNCHANGED idleVars

NextParser == ParseFile

ParserSpec == InitParser /\ [][NextParser]_vars

(***************************************************************************)
(* The discovery walk on its own: findCodeFiles called once on a workspace *)
(* whose entries are there or not, with the patterns a caller configured.  *)
(***************************************************************************)
\* config.excludePatterns: the list SearchCommand passes, a glob for
\* directories, and a glob and a plain name for files
CallerExcludePatterns ==
  {ConfigExcludePatterns,
   << <<"t", "m", "p", "*">> >>,
   << <<"*", ".", "p", "y">>, <<"d", ".", "t", "s">> >>}

DiscoveryFiles == {FileA, FileAdmin, FileB, FileC, FileD, FileE, FileF, FileR}

ParentOf(p) == SubSeq(p, 1, LastIndexOf(p, "/") - 1)

\* the workspaces: every file is there, is not there, or is listed by its
\* directory while its metadata cannot be read (a link to nothing); the
\* directories layout and tmp1 are there or not, dist and lib always are
Workspaces ==
  {f \in [{FileA, FileAdmin, FileB, FileE, FileF, FileR, DirLayout, DirTmp} ->
            {StaticFile, Absent, NoStat}] :
     /\ f[FileR] = StaticFile
     /\ f[DirLayout] # NoStat /\ f[DirTmp] # NoStat
     /\ f[DirLayout] = Absent => f[FileE] = Absent
     /\ f[DirTmp] = Absent => f[FileF] = Absent}

InitDiscovery ==
  /\ fs \in Workspaces
  /\ rootOk = TRUE
  /\ fsOps = 0
  /\ config \in [maxFileSize : {maxFileSize}, excludePatterns : CallerExcludePatterns,
                  watchFiles : {FALSE}]
  /\ index = EmptyIndex
  /\ watcher = [fileWatcher |-> "undefined", active |-> 0]
  /\ events = {}
  /\ ws = WsIdle
  /\ tasks = <<>>
  /\ runs = 0
  /\ hostCalls = 0
  /\ snap = NoSnapshot
  /\ engine = [elements |-> <<>>, shares |-> FALSE]
  /\ answer = NoAnswer
  /\ last = Other
  /\ lin = LinNone
  /\ call = [fn |-> "findCodeFiles", done |-> FALSE, files |-> <<>>]

\* const files = await this.findCodeFiles(workspaceFolder.uri.fsPath)
FindCodeFiles ==
  /\ call.fn = "findCodeFiles"
  /\ ~call.done
  /\ call' = [call EXCEPT !.done = TRUE, !.files = findCodeFiles(config, fs, rootOk)]
  /\ UNCHANGED idleVars

NextDiscovery == FindCodeFiles

DiscoverySpec == InitDiscovery /\ [][NextDiscovery]_vars

(***************************************************************************)
(* Properties.                                                             *)
(***************************************************************************)
\* an indexWorkspace call has completed
WorkspaceIndexed == ws.pc = "done" \/ runs >= 2

\* the directories a path lies under
DirsAbove(p) == {SubSeq(p, 1, k - 1) : k \in {j \in 2..Len(p) : p[j] = "/"}}

UnderExcludedDirectory(p) ==
  \E d \in DirsAbove(p) : d # Root /\ shouldExcludeDirectory(config, d)

\* the FileIndex an indexFile call stores for path p when it finds no entry for
\* p and reads the file in state s all the way through
RecordOf(p, s) == indexFileRun(p, s, s, s, NoRec).fileIndex

Indexable(s) == ReadOk(s) /\ s.len <= maxFileSize

\* C1: once an indexWorkspace call has completed, getAllElements() holds no
\* declaration of a file that lies under a directory the exclusion patterns
\* match, whatever indexWorkspace, indexFile and watcher events happened.
C1_ExcludedNeverListed ==
  WorkspaceIndexed =>
    \A i \in 1..Len(getAllElements(index)) :
      ~UnderExcludedDirectory(getAllElements(index)[i].filePath)

\* C4: the files map and the elements map have the same keys, and the list
\* under elements[p] is the declaration list of files[p].
C4_MapsAgree ==
  /\ {p \in AllFiles : index.files[p] # NoRec} = SeqRange(index.order)
  /\ \A p \in SeqRange(index.order) : index.elements[p] = index.files[p].elements

C4_Witness ==
  /\ Len(index.order) >= 2
  /\ last.op = "removeFile"
  /\ last.had

\* C5: when removeFile(p) returns, p has no FileRecord and no declaration in
\* getAllElements(), and the records and declarations of the other paths are
\* what they were.
C5_RemoveFileEvicts ==
  [][last'.op = "removeFile" =>
       LET p == last'.path
       IN /\ index'.files[p] = NoRec
          /\ p \notin SeqRange(index'.order)
          /\ \A i \in 1..Len(getAllElements(index')) :
               getAllElements(index')[i].filePath # p
          /\ \A q \in AllFiles \ {p} :
               /\ index'.files[q] = index.files[q]
               /\ index'.elements[q] = index.elements[q]
          /\ index'.order = SelectNot(index.order, p)
          /\ getAllElements(index') =
               SelectSeq(getAllElements(index), LAMBDA e : e.filePath # p)]_vars

C5_Witness ==
  /\ last.op = "removeFile"
  /\ last.had
  /\ index.files[last.path] = NoRec
  /\ getAllElements(index) # <<>>

\* C8: an indexFile call in which reading the file or its metadata fails,
\* whoever made it, returns without throwing and leaves both maps of the index
\* as they were, with nothing left to be stored later; an indexWorkspace pass
\* goes on to its next file.
C8_ReadFailureAbsorbed ==
  [][(last'.op = "indexFile" /\ last'.kind = "error") =>
       /\ ~last'.threw
       /\ index' = index
       /\ tasks' = tasks
       /\ last'.who = "ws" =>
            ws'.pc = "loop" /\ ws'.i = ws.i + 1 /\ ws'.result = "pending"
       /\ last'.who # "ws" => ws' = ws]_vars

C8_Witness ==
  /\ last.op = "indexFile"
  /\ last.kind = "error"
  /\ last.who = "ws"
  /\ index.order # <<>>

\* C9: an indexWorkspace call whose root does not exist or cannot be read
\* ends by rejecting.
C9_RootFailureReported ==
  (ws.pc = "done" /\ ws.rootFailed) => ws.result = "rejected"

\* C10: a watcher exists only with watchFiles; its listeners call indexFile(p)
\* for a creation or modification event of p and removeFile(p) for a deletion
\* event of p, and when the deletion listener returns p has no FileRecord.
C10_WatcherDispatch ==
  /\ watcher.active > 0 => config.watchFiles
  /\ last.ev \in {"create", "change"} => last.op = "indexFile"
  /\ last.ev = "delete" =>
       /\ last.op = "removeFile"
       /\ index.files[last.path] = NoRec
       /\ last.path \notin SeqRange(index.order)

C10_Witness ==
  /\ last.ev = "delete"
  /\ last.had
  /\ config.watchFiles
  /\ index.files[last.path] = NoRec

\* the step is an indexFile(p) call during which no other process wrote
QuietIndexFile(p) ==
  /\ last'.op = "indexFile"
  /\ last'.path = p
  /\ last'.quiet

\* the step suspended an indexFile(p) call at its parse with fileIndex to store
Suspended(p, fileIndex) ==
  /\ last'.kind = "parsed"
  /\ index' = index
  /\ IF last'.who = "ws"
     THEN ws'.pc = "await" /\ ws'.fileIndex = fileIndex /\ tasks' = tasks
     ELSE tasks' = Append(tasks, [who |-> last'.who, fileIndex |-> fileIndex])

\* C2: when the entry of p is the FileRecord an indexFile(p) call stored for
\* the file as it is now (nothing changed since that call), the next
\* indexFile(p) call does not parse and leaves the entry, fingerprint and
\* declaration list, as it is.
C2_UnchangedFileSkipped ==
  [][\A p \in AllFiles :
       (/\ QuietIndexFile(p)
        /\ Indexable(FileAt(fs, p))
        /\ index.files[p] = RecordOf(p, FileAt(fs, p)))
       => /\ last'.kind = "unchanged"
          /\ index' = index
          /\ tasks' = tasks
          /\ IF last'.who = "ws" THEN ws'.pc = "loop" ELSE ws' = ws]_vars

C2_Witness ==
  /\ last.op = "indexFile"
  /\ last.kind = "unchanged"
  /\ Indexable(FileAt(fs, last.path))
  /\ index.files[last.path] = RecordOf(last.path, FileAt(fs, last.path))
  /\ index.elements[last.path] = parseFile(last.path, FileAt(fs, last.path))

\* the entry of p is the FileRecord of the file as it was one character ago
IndexedBeforeAppend(f, p) ==
  \E s0 \in Contents :
    /\ Indexable(s0)
    /\ IsAppend(s0, f[p])
    /\ index.files[p] = RecordOf(p, s0)

\* a write that appends one character to an indexed file changes the fingerprint
AppendChangesHash ==
  \A p \in Paths :
    (fs'[p] # fs[p] /\ IndexedBeforeAppend(fs', p))
    => calculateFileHash(fs'[p]) # index.files[p].hash

\* a suspended call stores the FileIndex it built in place of the entry
StoreReplaces ==
  last'.op = "store" =>
    /\ index'.files[last'.path] =
         (IF last'.who = "ws" THEN ws.fileIndex ELSE Head(tasks).fileIndex)
    /\ index'.elements[last'.path] = index'.files[last'.path].elements

\* C6 (as stated): after one character is appended to an indexed file its
\* fingerprint differs from the stored one, and the next indexFile call
\* parses the file again and replaces the FileRecord.
C6_AppendReparsed ==
  [][/\ AppendChangesHash
     /\ StoreReplaces
     /\ \A p \in Paths :
          (QuietIndexFile(p) /\ IndexedBeforeAppend(fs, p))
          => Suspended(p, RecordOf(p, fs[p]))]_vars

\* C6 (amended): the same for a file that after the append is not larger than
\* maxFileSize.
C6_AppendReparsedWithinSize ==
  [][/\ AppendChangesHash
     /\ StoreReplaces
     /\ \A p \in Paths :
          (QuietIndexFile(p) /\ IndexedBeforeAppend(fs, p)
             /\ fs[p].len <= maxFileSize)
          => Suspended(p, RecordOf(p, fs[p]))]_vars

\* the appended file was parsed again: the call waits to store the new record
C6_Witness ==
  /\ last.op = "indexFile"
  /\ last.quiet
  /\ last.kind = "parsed"
  /\ last.path \in Paths
  /\ IndexedBeforeAppend(fs, last.path)
  /\ index.files[last.path].hash # calculateFileHash(fs[last.path])
  /\ \/ ws.pc = "await" /\ ws.fileIndex = RecordOf(last.path, fs[last.path])
     \/ \E i \in 1..Len(tasks) :
          tasks[i].fileIndex = RecordOf(last.path, fs[last.path])

\* the entry of p after the operation with view v has run alone, from start to
\* end, on an index whose entry of p is e
RunAlone(p, e, v) ==
  IF v.op = "remove" THEN NoRec
  ELSE LET out == indexFileRun(p, v.s1, v.s2, v.s3, e)
       IN IF out.kind = "parsed" THEN out.fileIndex ELSE e

InOrder(p, e, v, w) == RunAlone(p, RunAlone(p, e, v), w)

\* C3: when an operation of a watcher listener on p (indexFile or removeFile)
\* and the indexFile(p) of an indexWorkspace pass have overlapped and both are
\* over, the entry of p is what the two leave when one runs after the other,
\* in one of the two orders, and the elements map holds that entry's list.
C3_OneOfTwoOrders ==
  Closed(lin) =>
    LET p == lin.path
        entry == index.files[p]
    IN /\ entry \in {InOrder(p, lin.e0, lin.first, lin.second),
                     InOrder(p, lin.e0, lin.second, lin.first)}
       /\ IF entry = NoRec
          THEN p \notin SeqRange(index.order)
          ELSE p \in SeqRange(index.order) /\ index.elements[p] = entry.elements

\* two overlapping indexFile calls that read different versions of the file
C3_Witness ==
  /\ Closed(lin)
  /\ {lin.first.who, lin.second.who} = {"ws", "watcher"}
  /\ lin.second.op = "index"
  /\ lin.e0 # NoRec
  /\ InOrder(lin.path, lin.e0, lin.first, lin.second)
       # InOrder(lin.path, lin.e0, lin.second, lin.first)
  /\ index.files[lin.path] = RunAlone(lin.path, lin.e0, lin.first)

\* where element e stands in list q
PositionIn(q, e) == CHOOSE k \in 1..Len(q) : q[k] = e

\* C7: a list got from getAllElements() stays as it is while indexFile,
\* removeFile and indexWorkspace change the index; a search reads the list the
\* engine was given and changes neither that list, entries and order, nor the
\* index, and every result is an entry of that list.
C7_SnapshotUntouched ==
  [][/\ (snap.held /\ index' # index) => (snap' = snap /\ engine' = engine)
     /\ last'.op = "search" =>
          /\ snap'.list = snap.list
          /\ engine'.elements = engine.elements
          /\ index' = index
          /\ answer'.results =
               searchResults(snap.list, answer'.query, answer'.options)
          /\ \A i \in 1..Len(answer'.results) :
               answer'.results[i].element \in SeqRange(snap.list)]_vars

\* a search over a list the index has moved away from, whose ranking puts two
\* entries in the opposite order to the list's
C7_Witness ==
  /\ last.op = "search"
  /\ engine.shares
  /\ snap.list # getAllElements(index)
  /\ \E i \in 1..(Len(answer.results) - 1) :
       PositionIn(snap.list, answer.results[i].element)
         > PositionIn(snap.list, answer.results[i + 1].element)

(***************************************************************************)
(* The ranking engine called on its own.                                   *)
(***************************************************************************)
Searched == call.fn = "search" /\ call.done

CaseSensitive == searchOptions(call.options).caseSensitive

InUnitInterval(score) == score.den > 0 /\ 0 <= score.num /\ score.num <= score.den

\* C11: whatever the declaration and the structured query, the score
\* calculateScore gives it, and the score of every result search returns, is a
\* number from 0 to 1
C11_ScoreInUnitInterval ==
  Searched =>
    /\ \A i \in 1..Len(call.scores) : InUnitInterval(call.scores[i])
    /\ \A i \in 1..Len(call.results) : InUnitInterval(call.results[i].score)

\* a search that gave one declaration the score 1, another a score strictly
\* between 0 and 1, and returned results
C11_Witness ==
  /\ Searched
  /\ \E i \in 1..Len(call.scores) : call.scores[i].num = call.scores[i].den
  /\ \E i \in 1..Len(call.scores) :
       0 < call.scores[i].num /\ call.scores[i].num < call.scores[i].den
  /\ Len(call.results) > 0

\* the keyword occurs in the name, the signature or the description
KeywordMatches(element, keyword, caseSensitive) ==
  \/ Includes(normalize(element.name, caseSensitive), normalize(keyword, caseSensitive))
  \/ Includes(normalize(element.signature, caseSensitive),
              normalize(keyword, caseSensitive))
  \/ Includes(normalize(element.description, caseSensitive),
              normalize(keyword, caseSensitive))

DistinctKeywords == SeqRange(call.query.keywords)

MatchedOf(element) ==
  Cardinality({k \in DistinctKeywords : KeywordMatches(element, k, CaseSensitive)})

\* C12: when the query has more than one distinct keyword, a declaration
\* that matches fewer than half of them scores 0, and one that matches exactly
\* half of them is not zeroed
C12_BelowHalfIsZero ==
  Searched /\ Cardinality(DistinctKeywords) > 1 =>
    \A i \in 1..Len(call.elements) :
      /\ 2 * MatchedOf(call.elements[i]) < Cardinality(DistinctKeywords)
           => call.scores[i].num = 0
      /\ 2 * MatchedOf(call.elements[i]) = Cardinality(DistinctKeywords)
           => call.scores[i].num > 0

\* a search whose list has a declaration matching at least one keyword but
\* fewer than half, and one matching exactly half
C12_Witness ==
  /\ Searched
  /\ \E i \in 1..Len(call.elements) :
       /\ MatchedOf(call.elements[i]) > 0
       /\ 2 * MatchedOf(call.elements[i]) < Cardinality(DistinctKeywords)
  /\ \E i \in 1..Len(call.elements) :
       /\ 2 * MatchedOf(call.elements[i]) = Cardinality(DistinctKeywords)
       /\ call.scores[i].num > 0

\* the score calculateScore gave a declaration of the list
ScoreOf(element) ==
  call.scores[CHOOSE k \in 1..Len(call.elements) : call.elements[k] = element]

ScoreGT(a, b) == a.num * b.den > b.num * a.den

NameContains(element, keyword) ==
  Includes(normalize(element.name, CaseSensitive), normalize(keyword, CaseSensitive))

OnlyInDescription(element, keyword) ==
  /\ ~NameContains(element, keyword)
  /\ ~Includes(normalize(element.signature, CaseSensitive),
               normalize(keyword, CaseSensitive))
  /\ Includes(normalize(element.description, CaseSensitive),
              normalize(keyword, CaseSensitive))

\* C16: for a query of one keyword, a candidate whose name contains the
\* keyword scores strictly higher than a candidate that matches it only in its
\* description, whatever their kinds, and stands before it in the result list
C16_NameBeatsDescription ==
  Searched /\ Cardinality(DistinctKeywords) = 1 =>
    LET keyword == CHOOSE k \in DistinctKeywords : TRUE
        inName == {e \in SeqRange(call.candidates) : NameContains(e, keyword)}
        inDescription ==
          {e \in SeqRange(call.candidates) : OnlyInDescription(e, keyword)}
    IN /\ \A e \in inName : \A d \in inDescription : ScoreGT(ScoreOf(e), ScoreOf(d))
       /\ \A q \in 1..Len(call.results) :
            call.results[q].element \in inDescription =>
              \A e \in inName : \E p \in 1..(q - 1) : call.results[p].element = e

\* a one-keyword search that returned a function matching only in its
\* description after a declaration of another kind whose name merely
\* contains the keyword
C16_Witness ==
  /\ Searched
  /\ Cardinality(DistinctKeywords) = 1
  /\ \E p, q \in 1..Len(call.results) :
       LET keyword == CHOOSE k \in DistinctKeywords : TRUE
           e == call.results[p].element
           d == call.results[q].element
       IN /\ p < q
          /\ NameContains(e, keyword)
          /\ normalize(e.name, CaseSensitive) # normalize(keyword, CaseSensitive)
          /\ e.type # "function"
          /\ OnlyInDescription(d, keyword)
          /\ d.type = "function"
          /\ call.query.intent = "find_functions"

\* the candidates search keeps: those whose score reaches the threshold
Kept ==
  {i \in 1..Len(call.candidates) :
     ScoreGE(ScoreOf(call.candidates[i]), searchOptions(call.options).threshold)}

\* the place of a kept candidate when the kept candidates are put in
\* descending order of score, equal scores in the order of the input
RankOf(i) ==
  1 + Cardinality({j \in Kept :
        \/ ScoreGT(ScoreOf(call.candidates[j]), ScoreOf(call.candidates[i]))
        \/ /\ ~ScoreGT(ScoreOf(call.candidates[i]), ScoreOf(call.candidates[j]))
           /\ j < i})

Limit == IF "maxResults" \in DOMAIN call.options THEN call.options.maxResults ELSE 50

\* C17: search returns exactly the candidates whose score reaches the
\* threshold, in descending order of score, equal scores in input order, cut
\* to the first maxResults of them (50 when the option is not given)
C17_ThresholdOrderTruncation ==
  Searched =>
    /\ Len(call.results) = IF Cardinality(Kept) < Limit THEN Cardinality(Kept) ELSE Limit
    /\ \A i \in Kept :
         RankOf(i) <= Limit =>
           /\ call.results[RankOf(i)].element = call.candidates[i]
           /\ call.results[RankOf(i)].score = ScoreOf(call.candidates[i])

\* a search that dropped a candidate below the threshold, returned two
\* different declarations of equal score, and cut the list to maxResults
C17_Witness ==
  /\ Searched
  /\ Cardinality(Kept) < Len(call.candidates)
  /\ Cardinality(Kept) > Limit
  /\ \E p, q \in 1..Len(call.results) :
       /\ p < q
       /\ call.results[p].element # call.results[q].element
       /\ call.results[p].score = call.results[q].score

\* C18: with a non-empty language allow-list, the candidates are exactly the
\* declarations of the wanted kinds whose file's language tag, the one derived
\* from its extension (typescript for .ts), is in the allow-list
C18_LanguageAllowList ==
  Searched /\ Len(searchOptions(call.options).languages) > 0
           /\ Len(searchOptions(call.options).filePatterns) = 0 =>
    call.candidates =
      SelectSeq(call.elements, LAMBDA e :
        /\ Len(call.query.elementTypes) > 0
             => ListIncludes(call.query.elementTypes, e.type)
        /\ ListIncludes(searchOptions(call.options).languages, getLanguage(e.filePath)))

\* what the canonical computation lets one keyword contribute: the weight of
\* the first field it is found in, name before signature before description,
\* in hundredths
Contribution(element, keyword) ==
  LET name == normalize(element.name, CaseSensitive)
      signature == normalize(element.signature, CaseSensitive)
      description == normalize(element.description, CaseSensitive)
      k == normalize(keyword, CaseSensitive)
  IN IF Includes(name, k)
     THEN (IF name = k THEN 225
           ELSE IF StartsWith(name, k) THEN 180
           ELSE IF EndsWith(name, k) THEN 120
           ELSE 90)
     ELSE IF Includes(signature, k) THEN 60
     ELSE IF Includes(description, k) THEN 30
     ELSE 0

RECURSIVE SumOver(_, _)
SumOver(element, keywords) ==
  IF keywords = {} THEN 0
  ELSE LET k == CHOOSE x \in keywords : TRUE
       IN Contribution(element, k) + SumOver(element, keywords \ {k})

KindBonus(element) ==
  IF call.query.intent = "find_functions" /\ element.type = "function" THEN 20
  ELSE IF element.type \in SeqRange(call.query.elementTypes) THEN 10
  ELSE 0

\* the sum times completeness squared, plus the bonus, over
\* keywordCount * 2.25 + 0.2, capped at 1
Normalized(element) ==
  LET n == Cardinality(DistinctKeywords)
      m == MatchedOf(element)
      num == SumOver(element, DistinctKeywords) * m * m + KindBonus(element) * n * n
      den == n * n * (225 * n + 20)
  IN IF num >= den THEN [num |-> 1, den |-> 1] ELSE [num |-> num, den |-> den]

SameScore(a, b) == a.num * b.den = b.num * a.den

\* C23 (as stated): for a query with keywords, the score of every declaration
\* is 0 when it matches no keyword, and otherwise the sum of the keywords'
\* first-field weights times completeness squared, plus the kind bonus,
\* divided by keywordCount * 2.25 + 0.2 and capped at 1
C23_CanonicalScore ==
  Searched /\ call.query.keywords # <<>> =>
    \A i \in 1..Len(call.elements) :
      SameScore(call.scores[i],
                IF MatchedOf(call.elements[i]) = 0 THEN ZeroScore
                ELSE Normalized(call.elements[i]))

\* C23 (amended): the same, with the score also 0 when the query has more
\* than one distinct keyword and the declaration matches fewer than half
C23_CanonicalScoreAboveCutoff ==
  Searched /\ call.query.keywords # <<>> =>
    \A i \in 1..Len(call.elements) :
      SameScore(call.scores[i],
                IF MatchedOf(call.elements[i]) = 0 THEN ZeroScore
                ELSE IF /\ Cardinality(DistinctKeywords) > 1
                        /\ 2 * MatchedOf(call.elements[i]) < Cardinality(DistinctKeywords)
                THEN ZeroScore
                ELSE Normalized(call.elements[i]))

\* a search in which a declaration matches some but not all of the keywords,
\* one of them in its name and in its signature too, and scores between 0
\* and 1, and another declaration matches only in its description
C23_Witness ==
  /\ Searched
  /\ \E i \in 1..Len(call.elements) :
       /\ 0 < MatchedOf(call.elements[i])
       /\ MatchedOf(call.elements[i]) < Cardinality(DistinctKeywords)
       /\ 0 < call.scores[i].num
       /\ call.scores[i].num < call.scores[i].den
       /\ \E k \in DistinctKeywords :
            /\ NameContains(call.elements[i], k)
            /\ Includes(normalize(call.elements[i].signature, CaseSensitive),
                        normalize(k, CaseSensitive))
  /\ \E i \in 1..Len(call.elements) :
       /\ call.scores[i].num > 0
       /\ \E k \in DistinctKeywords : OnlyInDescription(call.elements[i], k)

\* C26: in every result, each keyword found in the declaration's name,
\* signature or description is in matchedKeywords; a result with a positive
\* score has a matchedKeywords list that is not empty; and when the query's
\* keyword list has no duplicates, matchedKeywords is not longer than the
\* total the rationale reports
C26_MatchedKeywordsCoverScore ==
  Searched =>
    \A i \in 1..Len(call.results) :
      LET r == call.results[i]
      IN /\ \A k \in DistinctKeywords :
              KeywordMatches(r.element, k, CaseSensitive)
                => k \in SeqRange(r.matchedKeywords)
         /\ r.score.num > 0 => r.matchedKeywords # <<>>
         /\ (Cardinality(DistinctKeywords) = Len(call.query.keywords)
               /\ ~r.relevanceReason.general)
              => /\ r.relevanceReason.matched = Len(r.matchedKeywords)
                 /\ Len(r.matchedKeywords) <= r.relevanceReason.total

\* a search without duplicate keywords that returned a result whose score
\* comes from a keyword found only in the description, and a result that
\* matches fewer keywords than the query has
C26_Witness ==
  /\ Searched
  /\ Cardinality(DistinctKeywords) = Len(call.query.keywords)
  /\ \E i \in 1..Len(call.results) :
       /\ call.results[i].score.num > 0
       /\ \E k \in DistinctKeywords :
            /\ OnlyInDescription(call.results[i].element, k)
            /\ k \in SeqRange(call.results[i].matchedKeywords)
  /\ \E i \in 1..Len(call.results) :
       /\ call.results[i].score.num > 0
       /\ Len(call.results[i].matchedKeywords) < call.results[i].relevanceReason.total

(***************************************************************************)
(* The query parser called on its own.                                     *)
(***************************************************************************)
Parsed == call.fn = "parse" /\ call.pc # "text"

BlankText(text) == \A i \in 1..Len(text) : IsWhiteSpace(text[i])

\* C13: an empty or white-space-only text parses to intent FIND_ALL with no
\* keywords, and the search made with that query gives every candidate the
\* score 0 and returns an empty list, whatever the declarations and options
C13_BlankQueryFindsNothing ==
  call.fn = "parse" /\ BlankText(call.text) =>
    /\ call.pc # "text" =>
         call.query.intent = "find_all" /\ call.query.keywords = <<>>
    /\ call.pc = "searched" =>
         /\ \A i \in 1..Len(call.scores) : call.scores[i].num = 0
         /\ call.results = <<>>

\* the tokens of a text: its lower-cased maximal runs of characters that are
\* not white space, each with the position it starts at
TokenAt(text, i, j) ==
  /\ i <= j
  /\ \A k \in i..j : ~IsWhiteSpace(text[k])
  /\ i = 1 \/ IsWhiteSpace(text[i - 1])
  /\ j = Len(text) \/ IsWhiteSpace(text[j + 1])

TokenStarts(text) == {i \in 1..Len(text) : \E j \in i..Len(text) : TokenAt(text, i, j)}

TokenFrom(text, i) ==
  toLowerCase(SubSeq(text, i, CHOOSE j \in i..Len(text) : TokenAt(text, i, j)))

Tokens(text) == {TokenFrom(text, i) : i \in TokenStarts(text)}

\* the intent the rule of precedence gives a set of tokens
IntentOf(tokens) ==
  LET function == tokens \cap FUNCTION_KEYWORDS # {}
      class == tokens \cap CLASS_KEYWORDS # {}
      variable == tokens \cap VARIABLE_KEYWORDS # {}
  IN CASE function /\ ~class /\ ~variable -> "find_functions"
       [] class /\ ~function /\ ~variable -> "find_classes"
       [] variable /\ ~function /\ ~class -> "find_variables"
       [] OTHER ->
            IF tokens \cap {Interface, Append(Interface, "s")} # {}
            THEN "find_interfaces"
            ELSE IF tokens \cap {Type, Append(Type, "s")} # {} THEN "find_types"
            ELSE "find_all"

\* the kinds fixed for each intent
KindsOf(intent) ==
  CASE intent = "find_functions" -> {"function", "method"}
    [] intent = "find_classes" -> {"class"}
    [] intent = "find_variables" -> {"variable", "property"}
    [] intent = "find_interfaces" -> {"interface"}
    [] intent = "find_types" -> {"type", "interface"}
    [] intent = "find_all" ->
         {"function", "class", "method", "variable", "property", "interface", "type"}

\* C14: the intent parse returns is the one of the only category vocabulary
\* the lower-cased tokens touch, else FIND_INTERFACES for a token interface(s),
\* else FIND_TYPES for a token type(s), else FIND_ALL; and the kinds it returns
\* are the ones fixed for that intent
C14_IntentByPrecedence ==
  Parsed =>
    /\ call.query.intent = IntentOf(Tokens(call.text))
    /\ SeqRange(call.query.elementTypes) = KindsOf(call.query.intent)
    /\ call.text = joinWords(<<QueryWords[1], QueryWords[7], QueryWords[8], QueryWords[9]>>)
         => /\ call.query.intent = "find_functions"
            /\ SeqRange(call.query.elementTypes) = {"function", "method"}

\* a parsed text whose only category word is the token interface: the
\* category wins over the literal word
C14_Witness ==
  /\ Parsed
  /\ Interface \in Tokens(call.text)
  /\ Tokens(call.text) \cap (FUNCTION_KEYWORDS \cup VARIABLE_KEYWORDS) = {}
  /\ call.query.intent = "find_classes"

\* a parsed text with a function word and the token interface
C14_WitnessInterfaces ==
  /\ Parsed
  /\ Tokens(call.text) \cap FUNCTION_KEYWORDS # {}
  /\ call.query.intent = "find_interfaces"

Retained(token) ==
  \/ token \in ACTION_KEYWORDS \cup DOMAIN_KEYWORDS
  \/ /\ token \notin FUNCTION_KEYWORDS \cup CLASS_KEYWORDS \cup VARIABLE_KEYWORDS
     /\ token \notin stopWords

FirstStart(text, token) ==
  CHOOSE i \in TokenStarts(text) :
    /\ TokenFrom(text, i) = token
    /\ \A j \in TokenStarts(text) : TokenFrom(text, j) = token => i <= j

\* C15: the keyword list holds each retained token once, in the order of the
\* tokens' first occurrences; a token is retained when it is an action or
\* domain word, or is neither a category word nor a stop word
C15_KeywordsRetainedOnce ==
  Parsed =>
    LET keywords == call.query.keywords
    IN /\ SeqRange(keywords) = {token \in Tokens(call.text) : Retained(token)}
       /\ \A i, j \in 1..Len(keywords) :
            i < j => /\ keywords[i] # keywords[j]
                     /\ FirstStart(call.text, keywords[i])
                          < FirstStart(call.text, keywords[j])

\* a parsed text in which a retained token occurs twice, after another
\* retained token, next to a category word or a stop word that is dropped
C15_Witness ==
  /\ Parsed
  /\ Len(call.query.keywords) = 2
  /\ Cardinality(TokenStarts(call.text)) = 3
  /\ \E i, j \in TokenStarts(call.text) :
       i < j /\ TokenFrom(call.text, i) = TokenFrom(call.text, j)
             /\ Retained(TokenFrom(call.text, i))

(***************************************************************************)
(* The declaration parser called on its own.                               *)
(***************************************************************************)
FileParsed == call.fn = "parseFile" /\ call.done

\* the nodes of a tree, each with its depth
RECURSIVE NodesAt(_, _)
NodesAt(node, depth) ==
  {[node |-> node, depth |-> depth]}
  \cup UNION {NodesAt(node.children[i], depth + 1) : i \in 1..Len(node.children)}

KindType(kind) ==
  CASE kind = "FunctionDeclaration" -> "function"
    [] kind = "ClassDeclaration" -> "class"
    [] kind = "MethodDeclaration" -> "method"
    [] kind = "PropertyDeclaration" -> "property"
    [] OTHER -> "none"

\* the functions, classes, methods and properties the file declares private
DeclaredPrivate ==
  {n \in NodesAt(call.sourceFile, 0) :
     /\ KindType(n.node.kind) # "none"
     /\ "PrivateKeyword" \in SeqRange(n.node.modifiers)}

Extracted(n) ==
  \E i \in 1..Len(call.result.elements) :
    /\ call.result.elements[i].name = n.node.name
    /\ call.result.elements[i].type = KindType(n.node.kind)

\* C19: with includePrivate off, the list parseFile returns holds no
\* function, class, method or property declared with the private modifier;
\* with includePrivate on it holds them
C19_PrivateExcluded ==
  FileParsed =>
    IF call.options.includePrivate
    THEN \A n \in DeclaredPrivate : n.depth <= maxDepthOf(call.options) => Extracted(n)
    ELSE \A n \in DeclaredPrivate : ~Extracted(n)

\* C20: parseFile on a readable file with a syntax error returns the
\* declarations it could extract and a diagnostics list that is not empty
C20_SyntaxErrorReported ==
  FileParsed /\ call.sourceFile.parseDiagnostics > 0 =>
    Len(call.result.errors) > 0

\* the number of lines of a text: one more than its line breaks, the empty
\* line after a closing line break not counted
LineCount(text) ==
  LET feeds == {i \in 1..Len(text) : text[i] = "\n"}
      returns == {i \in 1..Len(text) :
                    text[i] = "\r" /\ ~(i < Len(text) /\ text[i + 1] = "\n")}
      closed == Len(text) > 0 /\ text[Len(text)] \in {"\n", "\r"}
  IN 1 + Cardinality(feeds) + Cardinality(returns) - (IF closed THEN 1 ELSE 0)

\* C21: every declaration parseFile returns starts on a line from 1 on, ends
\* on a line that is not before it and not beyond the last line of the file,
\* and when the two lines are the same its start column is not after its end
\* column
C21_SpanWithinFile ==
  FileParsed =>
    \A i \in 1..Len(call.result.elements) :
      LET e == call.result.elements[i]
      IN /\ 1 <= e.startLine
         /\ e.startLine <= e.endLine
         /\ e.endLine <= LineCount(call.sourceFile.text)
         /\ e.startLine = e.endLine => e.startColumn <= e.endColumn

\* a parsed file with a declaration that spans several lines and ends on the
\* last line of the file, and one that starts and ends on one line after the
\* first
C21_Witness ==
  /\ FileParsed
  /\ \E i \in 1..Len(call.result.elements) :
       /\ call.result.elements[i].startLine < call.result.elements[i].endLine
       /\ call.result.elements[i].endLine = LineCount(call.sourceFile.text)
  /\ \E i \in 1..Len(call.result.elements) :
       /\ call.result.elements[i].startLine = call.result.elements[i].endLine
       /\ call.result.elements[i].startLine > 1
       /\ call.result.elements[i].startColumn < call.result.elements[i].endColumn

\* C22: whatever maxDepth the parser is configured with, parseFile returns no
\* declaration of a node that lies more than maxDepth levels below the root
\* of the file's syntax tree
C22_DepthBounded ==
  FileParsed =>
    \A n \in NodesAt(call.sourceFile, 0) :
      n.depth > call.options.maxDepth => ~Extracted(n)

(***************************************************************************)
(* The discovery walk called on its own.                                   *)
(***************************************************************************)
Discovered == call.fn = "findCodeFiles" /\ call.done

\* the entry is there and its metadata can be read
Present(p) == StatOk(FileAt(fs, p))

\* no entry of the workspace has unreadable metadata
AllStatsReadable == \A p \in DOMAIN fs : fs[p] # NoStat

SupportedFile(p) == toLowerCase(extname(p)) \in supportedExtensions

\* the directory p lies in is one the walk goes into
InDescended(p) ==
  \/ ParentOf(p) = Root
  \/ Present(ParentOf(p)) /\ ~shouldExcludeDirectory(config, ParentOf(p))

\* a name fits a pattern as a whole: `*` stands for any run of characters,
\* every other character for itself
RECURSIVE GlobFitsAt(_, _, _, _)
GlobFitsAt(pat, i, name, j) ==
  IF i > Len(pat) THEN j > Len(name)
  ELSE IF pat[i] = "*"
  THEN \E k \in j..(Len(name) + 1) : GlobFitsAt(pat, i + 1, name, k)
  ELSE /\ j <= Len(name)
       /\ pat[i] = name[j]
       /\ GlobFitsAt(pat, i + 1, name, j + 1)

GlobFits(pat, name) == GlobFitsAt(pat, 1, name, 1)

FileRuleFits(name) ==
  \E pattern \in SeqRange(FileExcludePatterns \o config.excludePatterns) :
    GlobFits(pattern, name)

DirectoryRuleFits(name) ==
  \/ name \in SeqRange(DirExcludePatterns)
  \/ \E pattern \in SeqRange(config.excludePatterns) : GlobFits(pattern, name)

\* C24: a file with a supported extension in a directory the walk goes into
\* is left out exactly when its name fits, as a whole, one of the built-in
\* file patterns or a pattern of the caller; every other such file is listed
C24_FileExcludedIffNameFits ==
  Discovered /\ AllStatsReadable =>
    \A p \in DiscoveryFiles :
      (Present(p) /\ SupportedFile(p) /\ InDescended(p))
        => (p \notin SeqRange(call.files) <=> FileRuleFits(basename(p)))

\* C25: a directory under the root is skipped exactly when its own name is
\* an entry of the built-in list or fits a pattern of the caller; the
\* candidate files of every other directory are listed
C25_DirectorySkippedIffNamed ==
  Discovered /\ AllStatsReadable =>
    \A p \in DiscoveryFiles :
      (/\ ParentOf(p) # Root
       /\ Present(ParentOf(p))
       /\ Present(p) /\ SupportedFile(p) /\ ~shouldExcludeFile(config, p))
        => (p \notin SeqRange(call.files) <=> DirectoryRuleFits(basename(ParentOf(p))))

\* C28: an entry whose metadata cannot be read is skipped alone: every
\* candidate file whose own metadata can be read, in the same directory and
\* in the others, is still listed
C28_StatFailureSkipsOneEntry ==
  Discovered =>
    \A p \in DiscoveryFiles :
      (/\ Present(p) /\ SupportedFile(p) /\ ~shouldExcludeFile(config, p)
       /\ InDescended(p))
        => p \in SeqRange(call.files)

(***************************************************************************)
(* The record of a file and the versions of the file.                      *)
(***************************************************************************)
\* C29: every stored record has a fingerprint and a list of declarations
\* that come from one and the same content of the file, also when another
\* process wrote to the file while indexFile was running
C29_RecordOfOneVersion ==
  \A p \in AllFiles :
    index.files[p] # NoRec =>
      \E c \in Contents :
        /\ index.files[p].hash = calculateFileHash(c)
        /\ index.files[p].elements = parseFile(p, c)

(***************************************************************************)
(* Passes of indexWorkspace over a quiet disk.                             *)
(***************************************************************************)
RecordedPaths(idx) == {p \in AllFiles : idx.files[p] # NoRec}

\* the files under the root that discovery lists and whose size is within
\* the ceiling
CandidatePaths(cfg, f, rootReadable) ==
  {p \in SeqRange(findCodeFiles(cfg, f, rootReadable)) :
     FileAt(f, p).len <= cfg.maxFileSize}

\* C27: when a pass of indexWorkspace during which no file changed
\* completes, the paths that have a record are exactly the candidate files
\* now under the root
C27_RecordsAreCandidatesAfterPass ==
  [][(ws.pc = "loop" /\ ws'.pc = "done" /\ ws'.result = "resolved")
       => RecordedPaths(index') = CandidatePaths(config', fs', rootOk')]_vars

(***************************************************************************)
(* The life of the watcher.                                                *)
(***************************************************************************)
DisposeCalled == call.fn = "dispose" /\ call.done

\* the step that led here was a watcher listener calling into the indexer
WatcherInvoked == last.op \in {"indexFile", "removeFile"} /\ last.who = "watcher"

\* C30: at most one watcher of the indexer is live at any time, and once
\* dispose() has been called no watcher event calls indexFile or removeFile
C30_OneWatcherNoneAfterDispose ==
  /\ watcher.active <= 1
  /\ DisposeCalled => ~WatcherInvoked

====
